---- MODULE Spec2Model ----
(***************************************************************************)
(* A model of the Are.na MCP server's API client core.                     *)
(*                                                                         *)
(*   src/src/arena/client.ts   ConcurrencyLimiter, parseRetryAfterSeconds, *)
(*                             computeRetryDelayMs, ArenaClient            *)
(*   src/src/errors.ts         ArenaApiError, isRetryableStatus            *)
(*   src/unnamed/part_008      loadConfig (the ranges of the configuration)*)
(*   src/src/mcp/tools-read.ts normalizeChannelInput, resolveChannelFromInput,*)
(*                             the get_channel_contents tool                *)
(*   src/src/mcp/tools-write.ts registerWriteTools                          *)
(*   src/src/http/auth.ts, src/src/http.ts  the HTTP mode and its keys      *)
(*                                                                         *)
(* One "call" is one invocation of a public ArenaClient method.  A call    *)
(* runs one requestJson (two for a search that falls back to /v2/search).  *)
(* JavaScript runs one task at a time, so every action below is the code   *)
(* between two suspension points (await) of one call.                      *)
(***************************************************************************)
EXTENDS Integers, Sequences, FiniteSets, TLC

\* ------------------------------------------------------------------ bounds

\* Concurrent calls of one client in SpecLimiter.
NumCalls == 3
\* arenaMaxRetries ranges over 0..MaxRetriesBound (loadConfig allows 0..10).
MaxRetriesBound == 3
\* arenaMaxConcurrentRequests ranges over 1..MaxConcurrentBound (loadConfig: 1..64).
MaxConcurrentBound == 2
\* random() returns r / RandomDen for r in 0..RandomDen-1, a value of [0, 1).
RandomDen == 2

\* The path of a channel input has up to MaxSegments segments.
MaxSegments == 2
\* A search answers with up to MaxItems items of any kind, or with up to
\* MaxCandidates channels alike.
MaxItems == 2
MaxCandidates == 6

\* The HTTP server is followed through MaxRequests requests.
MaxRequests == 2

\* An identifier that is no URL has up to MaxTokens words, slashes and blanks.
MaxTokens == 5

\* mapWithConcurrency is given up to MaxTargets items.
MaxTargets == 3

\* ------------------------------------------------------------------ values

\* retryAfterSeconds is a number of seconds or null.  Seconds are counted in
\* units of 1/HintUnitsPerSecond s, so that fractions of a millisecond exist.
HintUnitsPerSecond == 10000
NoHint == -1
NoCall == 0
\* random() was not called for this sleep.
NoDraw == -1

Calls == 1 .. NumCalls

CeilDiv(a, b) == (a + b - 1) \div b

Pow2(n) == 2 ^ n

\* ------------------------------------------------------------------ config

\* loadConfig: arenaMaxRetries is clamped to 0..10, arenaMaxConcurrentRequests
\* to 1..64, arenaBackoffBaseMs to 50..30000; the fallback flag is a boolean.
ConfigSpace(retries, concurrents, bases, fallbacks) ==
    [arenaMaxRetries : retries,
     arenaMaxConcurrentRequests : concurrents,
     arenaBackoffBaseMs : bases,
     arenaEnableV2SearchFallback : fallbacks]

\* ------------------------------------------------------------------ operations

ReadOps == {"getMe", "getChannel", "getChannelContents", "search"}
WriteOps == {"createChannel", "createBlock", "connectBlock",
             "disconnectConnection", "moveConnection"}
Ops == ReadOps \cup WriteOps

\* The path each method hands to requestJson; phase "fallback" is searchV2.
RequestPath(op, phase) ==
    CASE phase = "fallback" -> "/v2/search"
      [] op = "getMe" -> "/v3/me"
      [] op = "getChannel" -> "/v3/channels/:id"
      [] op = "getChannelContents" -> "/v3/channels/:id/contents"
      [] op = "search" -> "/v3/search"
      [] op = "createChannel" -> "/v3/channels"
      [] op = "createBlock" -> "/v3/blocks"
      [] op = "connectBlock" -> "/v3/connections"
      [] op = "disconnectConnection" -> "/v3/connections/:id"
      [] op = "moveConnection" -> "/v3/connections/:id/move"

RequestMethod(op) ==
    CASE op \in ReadOps -> "GET"
      [] op = "disconnectConnection" -> "DELETE"
      [] OTHER -> "POST"

\* Only disconnectConnection passes expectNoContent: true.
ExpectNoContent(op) == op = "disconnectConnection"

\* ------------------------------------------------------------------ limiter

\* acquire with the comparison off by one: a slot too many.
acquire_OffByOne(lim, max, c) ==
    IF lim.active <= max
    THEN [active |-> lim.active + 1, queue |-> lim.queue, granted |-> c]
    ELSE [active |-> lim.active, queue |-> Append(lim.queue, c), granted |-> NoCall]

\* ConcurrencyLimiter.acquire: take a slot at once when one is free, else
\* queue a resolver.  granted is the call that now holds a new slot.
acquire(lim, max, c) ==
    IF lim.active < max
    THEN [active |-> lim.active + 1, queue |-> lim.queue, granted |-> c]
    ELSE [active |-> lim.active, queue |-> Append(lim.queue, c), granted |-> NoCall]

\* release without the call of the queued resolver: the slot is given back and
\* nobody is told.
release_NoHandOff(lim) ==
    [active |-> lim.active - 1, queue |-> lim.queue, granted |-> NoCall]

\* release with queue.pop() for queue.shift(): the newest waiter first.
release_Lifo(lim) ==
    IF lim.queue = << >>
    THEN [active |-> lim.active - 1, queue |-> lim.queue, granted |-> NoCall]
    ELSE [active |-> (lim.active - 1) + 1,
          queue |-> SubSeq(lim.queue, 1, Len(lim.queue) - 1),
          granted |-> lim.queue[Len(lim.queue)]]

\* ConcurrencyLimiter.release: give the slot back, then run the first queued
\* resolver, which takes the slot again in the same task.
release(lim) ==
    IF lim.queue = << >>
    THEN [active |-> lim.active - 1, queue |-> lim.queue, granted |-> NoCall]
    ELSE [active |-> (lim.active - 1) + 1, queue |-> Tail(lim.queue),
          granted |-> Head(lim.queue)]

\* ------------------------------------------------------------------ errors

\* isRetryableStatus taking every client error for retryable.
isRetryableStatus_AnyError(status) == status >= 400

isRetryableStatus(status) == status = 429 \/ status >= 500

\* Response.ok
ResponseOk(status) == status >= 200 /\ status <= 299

ArenaApiError(status, responseBody, retryAfterSeconds, url) ==
    [type |-> "ArenaApiError", status |-> status, responseBody |-> responseBody,
     retryAfterSeconds |-> retryAfterSeconds, url |-> url]

\* What fetch rejects with: a network failure, or the abort of the timeout.
FetchErrors == {[type |-> "TypeError", message |-> "fetch failed"],
                [type |-> "AbortError", message |-> "This operation was aborted"]}

\* ------------------------------------------------------------------ retry delay

\* The Retry-After header: absent, decimal seconds (val in hint units), an
\* HTTP date (val = its time minus Date.now(), in ms), or unparseable text.
RetryAfterHeader(kind, val) == [kind |-> kind, val |-> val]

parseRetryAfterSeconds(header) ==
    CASE header.kind = "absent" -> NoHint
      [] header.kind = "seconds" -> header.val
      [] header.kind = "date" ->
            IF header.val > 0 THEN (header.val * HintUnitsPerSecond) \div 1000 ELSE 0
      [] OTHER -> NoHint

\* computeRetryDelayMs with Math.floor for Math.ceil.
computeRetryDelayMs_Floor(attempt, baseMs, retryAfterSeconds, rnd) ==
    IF retryAfterSeconds # NoHint
    THEN (retryAfterSeconds * 1000) \div HintUnitsPerSecond
    ELSE baseMs * Pow2(attempt) + ((rnd * baseMs) \div RandomDen)

\* computeRetryDelayMs with attempt counted from one.
computeRetryDelayMs_OneIndexed(attempt, baseMs, retryAfterSeconds, rnd) ==
    IF retryAfterSeconds # NoHint
    THEN CeilDiv(retryAfterSeconds * 1000, HintUnitsPerSecond)
    ELSE baseMs * Pow2(attempt + 1) + ((rnd * baseMs) \div RandomDen)

\* Math.ceil(retryAfterSeconds * 1000), or baseMs * 2 ** attempt +
\* Math.floor(random() * baseMs) with random() = rnd / RandomDen.
computeRetryDelayMs(attempt, baseMs, retryAfterSeconds, rnd) ==
    IF retryAfterSeconds # NoHint
    THEN CeilDiv(retryAfterSeconds * 1000, HintUnitsPerSecond)
    ELSE baseMs * Pow2(attempt) + ((rnd * baseMs) \div RandomDen)

\* ------------------------------------------------------------------ responses

\* A JSON value (an `unknown` of the code): undefined, null, a boolean, a number,
\* a string (its text a sequence of tokens), an array (its items) or an object
\* (fields: the function from the names it has to their values).
Undefined == [type |-> "undefined"]
JsonNull == [type |-> "null"]
JsonBool(b) == [type |-> "boolean", bool |-> b]
JsonNumber(n) == [type |-> "number", num |-> n]
JsonString(text) == [type |-> "string", text |-> text]
\* The string of one token.
Text(token) == JsonString(<< token >>)
JsonArray(items) == [type |-> "array", items |-> items]
JsonObject(fields) == [type |-> "object", fields |-> fields]
EmptyObject == JsonObject([k \in {} |-> Undefined])

\* record.key of an object: undefined when it has no such field.
Field(object, key) ==
    IF key \in DOMAIN object.fields THEN object.fields[key] ELSE Undefined

\* value && typeof value === "object"
IsRecordLike(value) == value.type \in {"object", "array"}

\* record.key of any value: undefined unless it is an object with that field.
RecordField(value, key) ==
    IF value.type = "object" THEN Field(value, key) ELSE Undefined

\* An HTTP response: its status, its Retry-After header and its body ("json":
\* JSON content type and a body that parses, to {}; "badjson": JSON content
\* type and a body that does not parse; "text": any other content type).
HttpResponse(status, header, body) ==
    [status |-> status, retryAfter |-> header, body |-> body]

\* response.json().catch(() => null) / response.text(); a 204 has no body read.
ParsedBody(resp) ==
    IF resp.status = 204 THEN JsonNull
    ELSE CASE resp.body = "json" -> EmptyObject
           [] resp.body = "badjson" -> JsonNull
           [] OTHER -> JsonString(<< "text" >>)

Return(value) == [kind |-> "return", value |-> value]
Throw(error) == [kind |-> "throw", error |-> error]
\* Sleep delay ms, then try again; hint is the retryAfterSeconds the delay was
\* computed from.
Retry(delay, hint) == [kind |-> "retry", delay |-> delay, hint |-> hint]
NoResult == [kind |-> "none"]

\* The try block without the early return of the no-content case: the 204 is
\* handled as any other success.
HandleResponse_NoSentinel(resp, attempt, expectNoContent, url, cfg, rnd) ==
    LET parsedBody == ParsedBody(resp) IN
    IF ~ResponseOk(resp.status)
    THEN LET retryAfter == parseRetryAfterSeconds(resp.retryAfter)
             arenaError == ArenaApiError(resp.status, parsedBody, retryAfter, url)
         IN IF isRetryableStatus(resp.status) /\ attempt < cfg.arenaMaxRetries
            THEN Retry(computeRetryDelayMs(attempt, cfg.arenaBackoffBaseMs,
                                           retryAfter, rnd), retryAfter)
            ELSE Throw(arenaError)
    ELSE Return(parsedBody)

\* The try block giving up one attempt early.
HandleResponse_EarlyGiveUp(resp, attempt, expectNoContent, url, cfg, rnd) ==
    IF expectNoContent /\ resp.status = 204
    THEN Return(Undefined)
    ELSE LET parsedBody == ParsedBody(resp) IN
         IF ~ResponseOk(resp.status)
         THEN LET retryAfter == parseRetryAfterSeconds(resp.retryAfter)
                  arenaError == ArenaApiError(resp.status, parsedBody, retryAfter, url)
              IN IF isRetryableStatus(resp.status) /\ attempt + 1 < cfg.arenaMaxRetries
                 THEN Retry(computeRetryDelayMs(attempt, cfg.arenaBackoffBaseMs,
                                                retryAfter, rnd), retryAfter)
                 ELSE Throw(arenaError)
         ELSE Return(parsedBody)

\* The try block raising the typed error for every 204 it did not expect.
HandleResponse_NoContentFails(resp, attempt, expectNoContent, url, cfg, rnd) ==
    IF expectNoContent /\ resp.status = 204
    THEN Return(Undefined)
    ELSE LET parsedBody == ParsedBody(resp) IN
         IF ~ResponseOk(resp.status) \/ resp.status = 204
         THEN LET retryAfter == parseRetryAfterSeconds(resp.retryAfter)
                  arenaError == ArenaApiError(resp.status, parsedBody, retryAfter, url)
              IN IF isRetryableStatus(resp.status) /\ attempt < cfg.arenaMaxRetries
                 THEN Retry(computeRetryDelayMs(attempt, cfg.arenaBackoffBaseMs,
                                                retryAfter, rnd), retryAfter)
                 ELSE Throw(arenaError)
         ELSE Return(parsedBody)

\* requestJson, the try block after fetch resolved with resp.
HandleResponse(resp, attempt, expectNoContent, url, cfg, rnd) ==
    IF expectNoContent /\ resp.status = 204
    THEN Return(Undefined)
    ELSE LET parsedBody == ParsedBody(resp) IN
         IF ~ResponseOk(resp.status)
         THEN LET retryAfter == parseRetryAfterSeconds(resp.retryAfter)
                  arenaError == ArenaApiError(resp.status, parsedBody, retryAfter, url)
              IN IF isRetryableStatus(resp.status) /\ attempt < cfg.arenaMaxRetries
                 THEN Retry(computeRetryDelayMs(attempt, cfg.arenaBackoffBaseMs,
                                                retryAfter, rnd), retryAfter)
                 ELSE Throw(arenaError)
         ELSE Return(parsedBody)

\* The catch block wrapping the error it gives up on.
HandleFetchError_Wrapped(error, attempt, cfg, rnd) ==
    IF attempt >= cfg.arenaMaxRetries
    THEN Throw(ArenaApiError(0, JsonNull, NoHint, "none"))
    ELSE Retry(computeRetryDelayMs(attempt, cfg.arenaBackoffBaseMs, NoHint, rnd),
               NoHint)

\* requestJson, the catch block for an error that is no ArenaApiError.
HandleFetchError(error, attempt, cfg, rnd) ==
    IF attempt >= cfg.arenaMaxRetries
    THEN Throw(error)
    ELSE Retry(computeRetryDelayMs(attempt, cfg.arenaBackoffBaseMs, NoHint, rnd),
               NoHint)

\* The throw after the retry loop, reached only if the loop condition fails.
LoopEndedError == [type |-> "Error", message |-> "Request retry loop ended unexpectedly."]

\* ------------------------------------------------------------------ search fallback

\* The catch block of search falling back on any typed error.
ShouldFallback_AnyStatus(error, cfg) ==
    /\ error.type = "ArenaApiError"
    /\ cfg.arenaEnableV2SearchFallback

\* ArenaClient.search, the condition of its catch block.
ShouldFallback(error, cfg) ==
    /\ error.type = "ArenaApiError"
    /\ error.status = 403
    /\ cfg.arenaEnableV2SearchFallback

\* Every method wrapped in the fallback of search.
HasFallback_AllOps(op) == TRUE

\* Only search() wraps its request in the try/catch that falls back.
HasFallback(op) == op = "search"

\* The fallback payload normalized by normalizeSearchResponseV3.
Normalized_AlwaysV3(op, phase, payload, path) ==
    CASE op = "search" -> [sourceApi |-> "v3", payload |-> payload, from |-> path]
      [] op = "disconnectConnection" -> Undefined
      [] OTHER -> [payload |-> payload, from |-> path]

\* What the method returns for the payload of its request.
Normalized(op, phase, payload, path) ==
    CASE op = "search" ->
            [sourceApi |-> IF phase = "fallback" THEN "v2-fallback" ELSE "v3",
             payload |-> payload, from |-> path]
      [] op = "disconnectConnection" -> Undefined
      [] OTHER -> [payload |-> payload, from |-> path]

\* ------------------------------------------------------------------ strings

(* A string is a sequence of tokens.  "/" and " " are the separator and the *)
(* white space; every other token is a run of characters holding neither,  *)
(* kept whole because the code never looks inside one.                      *)
Slash == "/"
Space == " "
Scheme == "https:"

\* String.prototype.toLowerCase, token by token.
LowerToken(t) ==
    CASE t = "Alice" -> "alice"
      [] t = "S1" -> "s1"
      [] t = "A" -> "a"
      [] t = "My" -> "my"
      [] t = "Title" -> "title"
      [] t = "WWW.ARE.NA" -> "www.are.na"
      [] t = "Channel" -> "channel"
      [] t = "Bearer" -> "bearer"
      [] t = "BEARER" -> "bearer"
      [] OTHER -> t

toLowerCase(s) == [i \in 1 .. Len(s) |-> LowerToken(s[i])]

RECURSIVE trimStart(_)
trimStart(s) ==
    IF s # << >> /\ Head(s) = Space THEN trimStart(Tail(s)) ELSE s

RECURSIVE trimEnd(_)
trimEnd(s) ==
    IF s # << >> /\ s[Len(s)] = Space
    THEN trimEnd(SubSeq(s, 1, Len(s) - 1)) ELSE s

\* String.prototype.trim
trim(s) == trimEnd(trimStart(s))

\* s.split("/"): the pieces between the separators, the empty ones included.
RECURSIVE split(_, _)
split(s, piece) ==
    IF s = << >> THEN << piece >>
    ELSE IF Head(s) = Slash THEN << piece >> \o split(Tail(s), << >>)
    ELSE split(Tail(s), Append(piece, Head(s)))

\* .split("/").map((segment) => segment.trim()).filter((segment) => segment.length > 0)
Segments(s) ==
    SelectSeq([i \in 1 .. Len(split(s, << >>)) |-> trim(split(s, << >>)[i])],
              LAMBDA segment : Len(segment) > 0)

\* decodeURIComponent: "%41" is the escape of "A".
decodeURIComponent(s) ==
    [i \in 1 .. Len(s) |-> IF s[i] = "%41" THEN "A" ELSE s[i]]

\* new URL(s): throws (ok = FALSE) unless s is "https://" host path; hostname
\* is the host as written, pathname the rest ("/" when there is none).
ParseUrl(s) ==
    IF Len(s) >= 4 /\ s[1] = Scheme /\ s[2] = Slash /\ s[3] = Slash
       /\ s[4] \notin {Slash, Space, Scheme}
    THEN [ok |-> TRUE, hostname |-> << s[4] >>,
          pathname |-> IF Len(s) = 4 THEN << Slash >> ELSE SubSeq(s, 5, Len(s))]
    ELSE [ok |-> FALSE, hostname |-> << >>, pathname |-> << >>]

\* ------------------------------------------------------------------ channel input

\* null, for a string or an object that may be absent.
Null == << "null" >>

NormalizedInput(normalized, usedUrlExtraction, expectedOwnerSlug) ==
    [normalized |-> normalized, usedUrlExtraction |-> usedUrlExtraction,
     expectedOwnerSlug |-> expectedOwnerSlug]

\* value.toLowerCase() || null
LowerOrNull(s) == IF toLowerCase(s) = << >> THEN Null ELSE toLowerCase(s)

\* normalizeOwnerSlugInput cutting at the first "/" only.
normalizeOwnerSlugInput_FirstSlash(input) ==
    LET trimmed == trim(input)
        slashes == {i \in 1 .. Len(trimmed) : trimmed[i] = Slash}
        first == CHOOSE i \in slashes : \A j \in slashes : i <= j
    IN IF slashes = {} THEN NormalizedInput(trimmed, FALSE, Null)
       ELSE NormalizedInput(trim(SubSeq(trimmed, first + 1, Len(trimmed))), FALSE,
                            LowerOrNull(trim(SubSeq(trimmed, 1, first - 1))))

\* normalizeOwnerSlugInput: "owner/slug", or the input as it is.
normalizeOwnerSlugInput(input) ==
    LET trimmed == trim(input)
        segments == Segments(trimmed)
    IN IF Len(segments) >= 2
       THEN NormalizedInput(segments[2], FALSE, LowerOrNull(segments[1]))
       ELSE NormalizedInput(trimmed, FALSE, Null)

\* normalizeChannelInput taking the owner of a URL as it is written.
normalizeChannelInput_KeepCase(input) ==
    LET trimmed == trim(input)
        parsed == ParseUrl(trimmed)
        segments == Segments(parsed.pathname)
    IN IF Len(trimmed) = 0 THEN NormalizedInput(trimmed, FALSE, Null)
       ELSE IF ~parsed.ok THEN normalizeOwnerSlugInput(trimmed)
       ELSE IF toLowerCase(parsed.hostname) \notin {<< "are.na" >>, << "www.are.na" >>}
       THEN normalizeOwnerSlugInput(trimmed)
       ELSE IF Len(segments) = 0 THEN normalizeOwnerSlugInput(trimmed)
       ELSE IF segments[1] = << "channel" >> /\ Len(segments) >= 2
       THEN NormalizedInput(decodeURIComponent(segments[2]), TRUE, Null)
       ELSE IF segments[1] = << "block" >> THEN normalizeOwnerSlugInput(trimmed)
       ELSE IF Len(segments) >= 2
       THEN NormalizedInput(decodeURIComponent(segments[2]), TRUE,
                            decodeURIComponent(segments[1]))
       ELSE NormalizedInput(decodeURIComponent(segments[1]), TRUE, Null)

\* normalizeChannelInput: a URL of are.na or www.are.na gives the slug of its
\* path (and the owner before it); anything else goes to normalizeOwnerSlugInput.
normalizeChannelInput(input) ==
    LET trimmed == trim(input)
        parsed == ParseUrl(trimmed)
        segments == Segments(parsed.pathname)
    IN IF Len(trimmed) = 0 THEN NormalizedInput(trimmed, FALSE, Null)
       ELSE IF ~parsed.ok THEN normalizeOwnerSlugInput(trimmed)
       ELSE IF toLowerCase(parsed.hostname) \notin {<< "are.na" >>, << "www.are.na" >>}
       THEN normalizeOwnerSlugInput(trimmed)
       ELSE IF Len(segments) = 0 THEN normalizeOwnerSlugInput(trimmed)
       ELSE IF segments[1] = << "channel" >> /\ Len(segments) >= 2
       THEN NormalizedInput(decodeURIComponent(segments[2]), TRUE, Null)
       ELSE IF segments[1] = << "block" >> THEN normalizeOwnerSlugInput(trimmed)
       ELSE IF Len(segments) >= 2
       THEN NormalizedInput(decodeURIComponent(segments[2]), TRUE,
                            LowerOrNull(decodeURIComponent(segments[1])))
       ELSE NormalizedInput(decodeURIComponent(segments[1]), TRUE, Null)

\* ------------------------------------------------------------------ channel resolution

\* A NormalizedChannel, as far as the resolver reads it: owner is NoOwner (null)
\* or the embedded user, whose slug is a string (possibly empty).
Channel(slug, owner) == [slug |-> slug, owner |-> owner]
Owner(slug) == [present |-> TRUE, slug |-> slug]
NoOwner == [present |-> FALSE, slug |-> << >>]

\* A NormalizedSearchItem: slug is Null or a string.
SearchItem(entityType, id, slug, title) ==
    [entityType |-> entityType, id |-> id, slug |-> slug, title |-> title]

OwnerMissingError == [type |-> "Error", message |-> "Channel owner verification failed"]
OwnerMismatchError == [type |-> "Error", message |-> "Channel owner mismatch"]
NoError == [type |-> "none"]

\* channel.owner?.slug?.toLowerCase() ?? null
ActualOwnerSlug(channel) ==
    IF ~channel.owner.present THEN Null ELSE toLowerCase(channel.owner.slug)

\* assertChannelOwnerMatch letting a channel without owner through.
assertChannelOwnerMatch_MissingOk(channel, expectedOwnerSlug) ==
    IF expectedOwnerSlug = Null \/ expectedOwnerSlug = << >> THEN NoError
    ELSE IF ActualOwnerSlug(channel) = Null \/ ActualOwnerSlug(channel) = << >>
    THEN NoError
    ELSE IF ActualOwnerSlug(channel) # expectedOwnerSlug THEN OwnerMismatchError
    ELSE NoError

\* assertChannelOwnerMatch: the error it throws, NoError when it returns.
assertChannelOwnerMatch(channel, expectedOwnerSlug) ==
    IF expectedOwnerSlug = Null \/ expectedOwnerSlug = << >> THEN NoError
    ELSE IF ActualOwnerSlug(channel) = Null \/ ActualOwnerSlug(channel) = << >>
    THEN OwnerMissingError
    ELSE IF ActualOwnerSlug(channel) # expectedOwnerSlug THEN OwnerMismatchError
    ELSE NoError

ResolvedChannel(channel, idOrSlug, strategy, searchSourceApi, expectedOwnerSlug) ==
    [channel |-> channel, idOrSlug |-> idOrSlug, strategy |-> strategy,
     searchSourceApi |-> searchSourceApi, expectedOwnerSlug |-> expectedOwnerSlug]

\* error.message.includes("Channel owner mismatch") or
\* includes("Channel owner verification failed")
IsOwnerError(error) ==
    /\ error.type # "ArenaApiError"
    /\ error.message \in {"Channel owner mismatch", "Channel owner verification failed"}

\* The catch of the direct lookup going on to search after an owner failure as
\* after a 404.
SearchAfter_OwnerFailureToo(error) ==
    \/ IsOwnerError(error)
    \/ /\ error.type = "ArenaApiError"
       /\ error.status = 404

\* The catch of the direct lookup going on to search after any typed error.
SearchAfter_AnyApiError(error) ==
    /\ ~IsOwnerError(error)
    /\ error.type = "ArenaApiError"

\* resolveChannelFromInput, the catch of the direct lookup: TRUE when it goes
\* on to search, FALSE when it throws the error again.
SearchAfter(error) ==
    /\ ~IsOwnerError(error)
    /\ error.type = "ArenaApiError"
    /\ error.status = 404

\* The parameters of the search after a 404.
SearchParams(rawInput) ==
    [query |-> trim(rawInput), type |-> "Channel", scope |-> "my", per |-> 10,
     sort |-> "score_desc"]

\* selected.slug ?? String(selected.id), taking the id always.
IdOrSlug_AlwaysId(selected) == << ToString(selected.id) >>

\* selected.slug ?? String(selected.id)
IdOrSlug(selected) ==
    IF selected.slug # Null THEN selected.slug ELSE << ToString(selected.id) >>

\* The first five candidates as the ambiguity error lists them.
Choices(candidates) ==
    [i \in 1 .. (IF Len(candidates) < 5 THEN Len(candidates) ELSE 5) |->
        [title |-> candidates[i].title, slug |-> candidates[i].slug,
         id |-> candidates[i].id]]

AmbiguousError(candidates) ==
    [type |-> "Error", message |-> "is ambiguous", choices |-> Choices(candidates)]

ChannelCandidates(items) ==
    SelectSeq(items, LAMBDA item : item.entityType = "Channel")

ExactSlugMatches(candidates, normalized) ==
    SelectSeq(candidates, LAMBDA item :
        item.slug # Null /\ toLowerCase(item.slug) = toLowerCase(normalized))

ExactTitleMatches(candidates, rawInput) ==
    SelectSeq(candidates, LAMBDA item :
        toLowerCase(trim(item.title)) = toLowerCase(trim(rawInput)))

Selected(item, strategy) == [kind |-> "lookup", selected |-> item, strategy |-> strategy]


\* The choice among the candidates with the title tried before the slug.
ResolveFromSearch_TitleFirst(items, normalized, rawInput, error) ==
    LET candidates == ChannelCandidates(items)
        exactSlugMatches == ExactSlugMatches(candidates, normalized)
        exactTitleMatches == ExactTitleMatches(candidates, rawInput)
    IN IF Len(exactTitleMatches) = 1 THEN Selected(exactTitleMatches[1], "search-exact-title")
       ELSE IF Len(exactSlugMatches) = 1 THEN Selected(exactSlugMatches[1], "search-exact-slug")
       ELSE IF Len(candidates) = 1 THEN Selected(candidates[1], "search-single")
       ELSE IF Len(candidates) > 1 THEN Throw(AmbiguousError(candidates))
       ELSE Throw(error)

\* The choice among the candidates taking the first of many.
ResolveFromSearch_FirstOfMany(items, normalized, rawInput, error) ==
    LET candidates == ChannelCandidates(items)
        exactSlugMatches == ExactSlugMatches(candidates, normalized)
        exactTitleMatches == ExactTitleMatches(candidates, rawInput)
    IN IF Len(exactSlugMatches) = 1 THEN Selected(exactSlugMatches[1], "search-exact-slug")
       ELSE IF Len(exactTitleMatches) = 1 THEN Selected(exactTitleMatches[1], "search-exact-title")
       ELSE IF Len(candidates) = 1 THEN Selected(candidates[1], "search-single")
       ELSE IF Len(candidates) > 1 THEN Selected(candidates[1], "search-single")
       ELSE Throw(error)

\* The choice among the candidates throwing an error of its own for none.
ResolveFromSearch_OwnNotFound(items, normalized, rawInput, error) ==
    LET candidates == ChannelCandidates(items)
        exactSlugMatches == ExactSlugMatches(candidates, normalized)
        exactTitleMatches == ExactTitleMatches(candidates, rawInput)
    IN IF Len(exactSlugMatches) = 1 THEN Selected(exactSlugMatches[1], "search-exact-slug")
       ELSE IF Len(exactTitleMatches) = 1 THEN Selected(exactTitleMatches[1], "search-exact-title")
       ELSE IF Len(candidates) = 1 THEN Selected(candidates[1], "search-single")
       ELSE IF Len(candidates) > 1 THEN Throw(AmbiguousError(candidates))
       ELSE Throw([type |-> "Error", message |-> "Channel not found"])

\* resolveChannelFromInput after the search returned items: the candidate to
\* look up and the strategy, or the error to throw.  error is the 404 of the
\* direct lookup.
ResolveFromSearch(items, normalized, rawInput, error) ==
    LET candidates == ChannelCandidates(items)
        exactSlugMatches == ExactSlugMatches(candidates, normalized)
        exactTitleMatches == ExactTitleMatches(candidates, rawInput)
    IN IF Len(exactSlugMatches) = 1 THEN Selected(exactSlugMatches[1], "search-exact-slug")
       ELSE IF Len(exactTitleMatches) = 1 THEN Selected(exactTitleMatches[1], "search-exact-title")
       ELSE IF Len(candidates) = 1 THEN Selected(candidates[1], "search-single")
       ELSE IF Len(candidates) > 1 THEN Throw(AmbiguousError(candidates))
       ELSE Throw(error)

\* ------------------------------------------------------------------ HTTP keys

READ_SCOPE == "arena:read"
WRITE_SCOPE == "arena:write"

\* trimmed.split(/\s+/): the runs of s between the white space.
RECURSIVE WhiteSplit(_, _)
WhiteSplit(s, piece) ==
    IF s = << >> THEN (IF piece = << >> THEN << >> ELSE << piece >>)
    ELSE IF Head(s) = Space
    THEN (IF piece = << >> THEN << >> ELSE << piece >>) \o WhiteSplit(Tail(s), << >>)
    ELSE WhiteSplit(Tail(s), Append(piece, Head(s)))

\* parseBearerToken: the token of "Bearer <token>", Null for a header that is
\* absent (Null) or of another form.
parseBearerToken(authorizationHeader) ==
    IF authorizationHeader = Null \/ authorizationHeader = << >> THEN Null
    ELSE LET parts == WhiteSplit(trim(authorizationHeader), << >>) IN
         IF Len(parts) > 2 THEN Null
         ELSE IF Len(parts) < 2 THEN Null
         ELSE IF toLowerCase(parts[1]) # << "bearer" >> THEN Null
         ELSE IF trim(parts[2]) = << >> THEN Null
         ELSE trim(parts[2])

\* constantTimeEquals: equal lengths, then timingSafeEqual.
constantTimeEquals(left, right) ==
    /\ Len(left) = Len(right)
    /\ \A i \in 1 .. Len(left) : left[i] = right[i]

keyMatches(token, candidates) ==
    \E candidate \in candidates : constantTimeEquals(token, candidate)

AuthInfo(token, clientId, scopes, canWrite) ==
    [present |-> TRUE, token |-> token, clientId |-> clientId, scopes |-> scopes,
     canWrite |-> canWrite]

\* null or undefined for an AuthInfo.
NoAuthInfo ==
    [present |-> FALSE, token |-> Null, clientId |-> "none", scopes |-> << >>,
     canWrite |-> FALSE]

\* buildAuthInfoFromToken accepting every token as a read key.
buildAuthInfoFromToken_AnyToken(token, keys) ==
    LET canWrite == keyMatches(token, keys.writeKeys)
        canRead == TRUE
    IN IF ~canRead THEN NoAuthInfo
       ELSE IF canWrite
       THEN AuthInfo(token, "arena-mcp-http-write-client",
                     << READ_SCOPE, WRITE_SCOPE >>, TRUE)
       ELSE AuthInfo(token, "arena-mcp-http-read-client", << READ_SCOPE >>, FALSE)

\* buildAuthInfoFromToken: keys is the KeyScopeConfig.
buildAuthInfoFromToken(token, keys) ==
    LET canWrite == keyMatches(token, keys.writeKeys)
        canRead == canWrite \/ keyMatches(token, keys.readKeys)
    IN IF ~canRead THEN NoAuthInfo
       ELSE IF canWrite
       THEN AuthInfo(token, "arena-mcp-http-write-client",
                     << READ_SCOPE, WRITE_SCOPE >>, TRUE)
       ELSE AuthInfo(token, "arena-mcp-http-read-client", << READ_SCOPE >>, FALSE)

\* hasWriteScope satisfied by any authenticated caller.
hasWriteScope_ReadSuffices(authInfo) ==
    IF ~authInfo.present THEN FALSE
    ELSE \E i \in 1 .. Len(authInfo.scopes) : authInfo.scopes[i] = READ_SCOPE

hasWriteScope(authInfo) ==
    IF ~authInfo.present THEN FALSE
    ELSE \E i \in 1 .. Len(authInfo.scopes) : authInfo.scopes[i] = WRITE_SCOPE

writeScopeError == << "Access denied for write operation. Use a write API key for create/connect/disconnect/move tools." >>

\* deps.requireWriteScope?.(extra): the denial, or << >> for null and for no check
\* configured (the stdio server passes none).
RequireWriteScope(mode, authInfo) ==
    IF mode = "stdio" THEN << >>
    ELSE IF hasWriteScope(authInfo) THEN << >> ELSE writeScopeError

\* ------------------------------------------------------------------ HTTP server

\* An HTTP request: session is the MCP-Session-Id header (0: none), body the
\* JSON-RPC message ("initialize", the name of a tool it calls, or "other").
HttpRequest(method, authorization, session, body) ==
    [method |-> method, authorization |-> authorization, session |-> session,
     body |-> body]

NoRequest == HttpRequest("none", Null, 0, "none")

\* What the server did with a request: the status it answered with itself (0
\* when the transport answers), whether transport.handleRequest ran, the
\* AuthInfo set on the request, the sessions after it, and whether a runtime
\* was created.
Handling(status, handled, auth, sessions, created) ==
    [status |-> status, handled |-> handled, auth |-> auth, sessions |-> sessions,
     created |-> created]

\* The route of the MCP path for the method, behind the middleware.
RouteMcp(r, w, auth, newSession) ==
    CASE r.method = "POST" ->
            IF ~w.stateful THEN Handling(0, TRUE, auth, w.sessions, TRUE)
            ELSE IF r.session # 0
            THEN IF r.session \in w.sessions
                 THEN Handling(0, TRUE, auth, w.sessions, FALSE)
                 ELSE Handling(404, FALSE, auth, w.sessions, FALSE)
            ELSE IF r.body # "initialize"
            THEN Handling(400, FALSE, auth, w.sessions, FALSE)
            ELSE Handling(0, TRUE, auth, w.sessions \cup {newSession}, TRUE)
      [] r.method \in {"GET", "DELETE"} ->
            IF ~w.stateful THEN Handling(405, FALSE, auth, w.sessions, FALSE)
            ELSE IF r.session = 0 THEN Handling(400, FALSE, auth, w.sessions, FALSE)
            ELSE IF r.session \notin w.sessions
            THEN Handling(404, FALSE, auth, w.sessions, FALSE)
            ELSE Handling(0, TRUE, auth,
                          IF r.method = "DELETE" THEN w.sessions \ {r.session}
                          ELSE w.sessions,
                          FALSE)
      [] OTHER -> Handling(404, FALSE, auth, w.sessions, FALSE)

\* The middleware of the MCP path before its routes: the CORS preflight, then
\* the bearer key.
HandleMcp(r, w, newSession) ==
    IF w.cors /\ r.method = "OPTIONS"
    THEN Handling(204, FALSE, NoAuthInfo, w.sessions, FALSE)
    ELSE LET token == parseBearerToken(r.authorization) IN
         IF token = Null THEN Handling(401, FALSE, NoAuthInfo, w.sessions, FALSE)
         ELSE LET authInfo == buildAuthInfoFromToken(
                                  token, [readKeys |-> w.readKeys,
                                          writeKeys |-> w.writeKeys])
              IN IF ~authInfo.present
                 THEN Handling(401, FALSE, NoAuthInfo, w.sessions, FALSE)
                 ELSE RouteMcp(r, w, authInfo, newSession)

\* The server: how it runs and what it was configured with (of the HTTP mode:
\* the keys, CORS, stateful sessions), its sessions, the number of requests it
\* got, and the request it is handling with what it did with it.
Web(mode, readKeys, writeKeys, cors, stateful) ==
    [mode |-> mode, readKeys |-> readKeys, writeKeys |-> writeKeys, cors |-> cors,
     stateful |-> stateful, sessions |-> {}, count |-> 0, pc |-> "idle",
     request |-> NoRequest,
     did |-> Handling(0, FALSE, NoAuthInfo, {}, FALSE),
     runtimes |-> << >>,
     shut |-> [pc |-> "up", at |-> 0]]

(* A runtime of createRuntime, the k-th being web.runtimes[k].  Of the        *)
(* program: session (transport.sessionId, 0 while it has none; the session   *)
(* of runtime k is k), closed (the flag of closeServer).  Of the SDK:         *)
(* transport (open or closed).  Observations: pc (where the POST handler     *)
(* that created it is), closes (the calls of server.close()), calls (the     *)
(* calls of closeServer).                                                    *)
Runtime ==
    [session |-> 0, pc |-> "handling", transport |-> "open", closed |-> FALSE,
     closes |-> 0, calls |-> 0]

\* closeServer without its flag: server.close() at every call.
closeServer_NoFlag(w, k) ==
    [w EXCEPT !.runtimes[k] = [@ EXCEPT !.closed = TRUE, !.closes = @ + 1,
                                        !.transport = "closed", !.calls = @ + 1],
              !.sessions = @ \ {w.runtimes[k].session}]

\* closeServer of runtime k: nothing when closed is set; else it sets closed
\* and awaits server.close(), which closes the transport, whose onclose
\* deletes the session and calls closeServer once more, to no effect.
closeServer(w, k) ==
    IF w.runtimes[k].closed
    THEN [w EXCEPT !.runtimes[k].calls = @ + 1]
    ELSE [w EXCEPT !.runtimes[k] = [@ EXCEPT !.closed = TRUE, !.closes = @ + 1,
                                             !.transport = "closed",
                                             !.calls = @ + 2],
                   !.sessions = @ \ {w.runtimes[k].session}]

\* transport.onclose of runtime k: sessions.delete(sessionId) when the
\* transport has one, then closeServer().
onclose(w, k) ==
    closeServer([w EXCEPT !.sessions = @ \ {w.runtimes[k].session}], k)

\* transport.close() of runtime k: the SDK closes the transport and calls
\* onclose.
closeTransport(w, k) ==
    onclose([w EXCEPT !.runtimes[k].transport = "closed"], k)

\* The stdio server: no HTTP, no keys, no write-scope check.
StdioWeb == Web("stdio", {}, {}, FALSE, FALSE)

\* ------------------------------------------------------------------ normalize

\* asRecord: the value when it is an object or an array, else {}.
asRecord(value) == IF IsRecordLike(value) THEN value ELSE EmptyObject

\* asString, asNumber, asBoolean: the value when it is of the type, else null.
asString(value) == IF value.type = "string" THEN value ELSE JsonNull
asNumber(value) == IF value.type = "number" THEN value ELSE JsonNull
asBoolean(value) == IF value.type = "boolean" THEN value ELSE JsonNull

\* asArray: the items of an array, none of anything else.
asArray(value) == IF value.type = "array" THEN value.items ELSE << >>

\* a ?? b
Coalesce(a, b) == IF a # JsonNull /\ a # Undefined THEN a ELSE b

\* !value of a string or null
Falsy(value) == value = JsonNull \/ value = JsonString(<< >>)

NormalizedMarkdown(markdown, html, plain) ==
    [markdown |-> markdown, html |-> html, plain |-> plain]

\* normalizeMarkdown leaving the representations the record lacks empty.
normalizeMarkdown_NoBackfill(value) ==
    IF value = JsonNull \/ value = Undefined THEN JsonNull
    ELSE IF value.type = "string" THEN NormalizedMarkdown(value, value, value)
    ELSE LET record == asRecord(value)
             markdown == asString(RecordField(record, "markdown"))
             html == asString(RecordField(record, "html"))
             plain == asString(RecordField(record, "plain"))
         IN IF Falsy(markdown) /\ Falsy(html) /\ Falsy(plain) THEN JsonNull
            ELSE NormalizedMarkdown(Coalesce(markdown, JsonString(<< >>)),
                                    Coalesce(html, JsonString(<< >>)),
                                    Coalesce(plain, JsonString(<< >>)))

normalizeMarkdown(value) ==
    IF value = JsonNull \/ value = Undefined THEN JsonNull
    ELSE IF value.type = "string" THEN NormalizedMarkdown(value, value, value)
    ELSE LET record == asRecord(value)
             markdown == asString(RecordField(record, "markdown"))
             html == asString(RecordField(record, "html"))
             plain == asString(RecordField(record, "plain"))
         IN IF Falsy(markdown) /\ Falsy(html) /\ Falsy(plain) THEN JsonNull
            ELSE NormalizedMarkdown(
                     Coalesce(markdown, Coalesce(plain, Coalesce(html, JsonString(<< >>)))),
                     Coalesce(html, Coalesce(markdown, Coalesce(plain, JsonString(<< >>)))),
                     Coalesce(plain, Coalesce(markdown, Coalesce(html, JsonString(<< >>)))))

PaginationMeta(currentPage, nextPage, prevPage, perPage, totalPages, totalCount, hasMorePages) ==
    [currentPage |-> currentPage, nextPage |-> nextPage, prevPage |-> prevPage,
     perPage |-> perPage, totalPages |-> totalPages, totalCount |-> totalCount,
     hasMorePages |-> hasMorePages]

\* nextPage !== null && nextPage > 0
IsPositive(number) == number # JsonNull /\ number.num > 0

\* normalizePaginationMeta taking a next page for more pages whatever the flag.
normalizePaginationMeta_NextPageWins(value) ==
    LET record == asRecord(value)
        nextPage == asNumber(RecordField(record, "next_page"))
        hasMorePagesValue == asBoolean(RecordField(record, "has_more_pages"))
    IN PaginationMeta(
           Coalesce(asNumber(RecordField(record, "current_page")), JsonNumber(1)),
           nextPage,
           asNumber(RecordField(record, "prev_page")),
           Coalesce(asNumber(RecordField(record, "per_page")), JsonNumber(0)),
           Coalesce(asNumber(RecordField(record, "total_pages")), JsonNumber(1)),
           Coalesce(asNumber(RecordField(record, "total_count")), JsonNumber(0)),
           IF IsPositive(nextPage) THEN TRUE
           ELSE hasMorePagesValue # JsonNull /\ hasMorePagesValue.bool)

\* normalizePaginationMeta; hasMorePages is hasMorePagesValue ?? (nextPage !==
\* null && nextPage > 0).
normalizePaginationMeta(value) ==
    LET record == asRecord(value)
        nextPage == asNumber(RecordField(record, "next_page"))
        hasMorePagesValue == asBoolean(RecordField(record, "has_more_pages"))
    IN PaginationMeta(
           Coalesce(asNumber(RecordField(record, "current_page")), JsonNumber(1)),
           nextPage,
           asNumber(RecordField(record, "prev_page")),
           Coalesce(asNumber(RecordField(record, "per_page")), JsonNumber(0)),
           Coalesce(asNumber(RecordField(record, "total_pages")), JsonNumber(1)),
           Coalesce(asNumber(RecordField(record, "total_count")), JsonNumber(0)),
           IF hasMorePagesValue # JsonNull THEN hasMorePagesValue.bool
           ELSE IsPositive(nextPage))

NormalizedSearchItem(id, entityType, title, subtitle, slug, blockType, url, raw) ==
    [id |-> id, entityType |-> entityType, title |-> title, subtitle |-> subtitle,
     slug |-> slug, blockType |-> blockType, url |-> url, raw |-> raw]

\* inferUrl: the page of the channel, user or group of the slug; null without
\* a slug.
inferUrl(entityType, slug) ==
    LET site == << Scheme, Slash, Slash, "www.are.na", Slash >> IN
    IF Falsy(slug) THEN JsonNull
    ELSE CASE entityType = "Channel" ->
                 JsonString(site \o << "channel", Slash >> \o slug.text)
           [] entityType = "User" -> JsonString(site \o slug.text)
           [] entityType = "Group" ->
                 JsonString(site \o << "group", Slash >> \o slug.text)
           [] OTHER -> JsonNull

BlockTypes == {"Text", "Image", "Link", "Attachment", "Embed", "PendingBlock"}

\* The type of a block: the declared one when it is one of BlockTypes, else
\* PendingBlock.
BlockTypeOf(declared) ==
    IF declared # JsonNull /\ declared.text \in {<< t >> : t \in BlockTypes}
    THEN declared ELSE Text("PendingBlock")

normalizeSearchItemFromV2(entityType, value) ==
    LET record == asRecord(value)
        id == Coalesce(asNumber(RecordField(record, "id")), JsonNumber(0))
        slug == asString(RecordField(record, "slug"))
    IN CASE entityType = "Channel" ->
              NormalizedSearchItem(
                  id, entityType,
                  Coalesce(asString(RecordField(record, "title")),
                           JsonString(<< "Channel ", ToString(id.num) >>)),
                  IF Falsy(slug) THEN JsonNull
                  ELSE JsonString(<< "channel", Slash >> \o slug.text),
                  slug, JsonNull, inferUrl("Channel", slug), value)
         [] entityType = "User" ->
              NormalizedSearchItem(
                  id, entityType,
                  Coalesce(asString(RecordField(record, "full_name")),
                           Coalesce(asString(RecordField(record, "username")),
                                    JsonString(<< "User ", ToString(id.num) >>))),
                  IF Falsy(slug) THEN JsonNull ELSE JsonString(<< "@" >> \o slug.text),
                  slug, JsonNull, inferUrl("User", slug), value)
         [] OTHER ->
              LET blockType == BlockTypeOf(asString(RecordField(record, "class")))
                  source == asRecord(RecordField(record, "source"))
              IN NormalizedSearchItem(
                     id, "Block",
                     Coalesce(asString(RecordField(record, "title")),
                              JsonString(blockType.text
                                         \o << " block ", ToString(id.num) >>)),
                     asString(RecordField(source, "url")),
                     JsonNull, blockType, JsonNull, value)

\* array.map(item => normalizeSearchItemFromV2(entityType, item))
ItemsFromV2(entityType, array) ==
    [i \in 1 .. Len(array) |-> normalizeSearchItemFromV2(entityType, array[i])]

NormalizedSearchResult(sourceApi, items, meta) ==
    [sourceApi |-> sourceApi, items |-> items, meta |-> meta]

\* The meta normalizeSearchResponseV2 makes of current_page, total_pages, per
\* and length.
MetaFromV2(record) ==
    LET per == Coalesce(asNumber(RecordField(record, "per")), JsonNumber(24))
        currentPage == Coalesce(asNumber(RecordField(record, "current_page")),
                                JsonNumber(1))
        totalPages == Coalesce(asNumber(RecordField(record, "total_pages")),
                               JsonNumber(1))
        length == Coalesce(asNumber(RecordField(record, "length")), JsonNumber(0))
    IN PaginationMeta(
           currentPage,
           IF currentPage.num < totalPages.num THEN JsonNumber(currentPage.num + 1)
           ELSE JsonNull,
           IF currentPage.num > 1 THEN JsonNumber(currentPage.num - 1) ELSE JsonNull,
           per, totalPages, length,
           currentPage.num < totalPages.num)

\* normalizeSearchResponseV2 with the channels ahead of the blocks.
normalizeSearchResponseV2_ChannelsFirst(response) ==
    LET record == asRecord(response)
        blockItems == ItemsFromV2("Block", asArray(RecordField(record, "blocks")))
        channelItems == ItemsFromV2("Channel", asArray(RecordField(record, "channels")))
        userItems == ItemsFromV2("User", asArray(RecordField(record, "users")))
    IN NormalizedSearchResult("v2-fallback", channelItems \o blockItems \o userItems,
                              MetaFromV2(record))

normalizeSearchResponseV2(response) ==
    LET record == asRecord(response)
        blockItems == ItemsFromV2("Block", asArray(RecordField(record, "blocks")))
        channelItems == ItemsFromV2("Channel", asArray(RecordField(record, "channels")))
        userItems == ItemsFromV2("User", asArray(RecordField(record, "users")))
    IN NormalizedSearchResult("v2-fallback", blockItems \o channelItems \o userItems,
                              MetaFromV2(record))

\* ------------------------------------------------------------------ blocks

\* Object.keys(record).length
KeyCount(record) ==
    IF record.type = "array" THEN Len(record.items)
    ELSE Cardinality(DOMAIN record.fields)

normalizeEmbeddedUser(value) ==
    LET record == asRecord(value)
        id == asNumber(RecordField(record, "id"))
        slug == asString(RecordField(record, "slug"))
        name == asString(RecordField(record, "name"))
    IN IF id = JsonNull \/ slug = JsonNull \/ name = JsonNull THEN JsonNull
       ELSE [id |-> id, slug |-> slug, name |-> name,
             avatar |-> asString(RecordField(record, "avatar")),
             initials |-> asString(RecordField(record, "initials"))]

normalizeConnectionContext(value) ==
    LET record == asRecord(value)
        id == asNumber(RecordField(record, "id"))
    IN IF id = JsonNull THEN JsonNull
       ELSE [id |-> id,
             position |-> asNumber(RecordField(record, "position")),
             pinned |-> asBoolean(RecordField(record, "pinned")),
             connectedAt |-> asString(RecordField(record, "connected_at")),
             connectedBy |-> normalizeEmbeddedUser(RecordField(record, "connected_by"))]

\* normalizeImage: null for a record without keys.
normalizeImage(value) ==
    LET record == asRecord(value)
        small == asRecord(RecordField(record, "small"))
        medium == asRecord(RecordField(record, "medium"))
        large == asRecord(RecordField(record, "large"))
        square == asRecord(RecordField(record, "square"))
    IN IF KeyCount(record) = 0 THEN JsonNull
       ELSE [src |-> asString(RecordField(record, "src")),
             small |-> asString(RecordField(small, "url")),
             medium |-> asString(RecordField(medium, "url")),
             large |-> asString(RecordField(large, "url")),
             square |-> asString(RecordField(square, "url")),
             altText |-> asString(RecordField(record, "alt_text")),
             width |-> asNumber(RecordField(record, "width")),
             height |-> asNumber(RecordField(record, "height")),
             contentType |-> asString(RecordField(record, "content_type")),
             filename |-> asString(RecordField(record, "filename")),
             fileSize |-> asNumber(RecordField(record, "file_size"))]

\* normalizeAttachment: null without a url that is a string.
normalizeAttachment(value) ==
    LET record == asRecord(value)
        url == asString(RecordField(record, "url"))
    IN IF url = JsonNull THEN JsonNull
       ELSE [url |-> url,
             filename |-> asString(RecordField(record, "filename")),
             contentType |-> asString(RecordField(record, "content_type")),
             fileSize |-> asNumber(RecordField(record, "file_size")),
             fileExtension |-> asString(RecordField(record, "file_extension"))]

\* normalizeEmbed: null for a record without keys.
normalizeEmbed(value) ==
    LET record == asRecord(value)
    IN IF KeyCount(record) = 0 THEN JsonNull
       ELSE [url |-> asString(RecordField(record, "url")),
             sourceUrl |-> asString(RecordField(record, "source_url")),
             html |-> asString(RecordField(record, "html")),
             title |-> asString(RecordField(record, "title")),
             type |-> asString(RecordField(record, "type")),
             authorName |-> asString(RecordField(record, "author_name"))]

NormalizedBlock(type, id, record, content, image, attachment, embed) ==
    [type |-> type, id |-> id,
     title |-> asString(RecordField(record, "title")),
     description |-> normalizeMarkdown(RecordField(record, "description")),
     state |-> asString(RecordField(record, "state")),
     visibility |-> asString(RecordField(record, "visibility")),
     commentCount |-> asNumber(RecordField(record, "comment_count")),
     createdAt |-> asString(RecordField(record, "created_at")),
     updatedAt |-> asString(RecordField(record, "updated_at")),
     user |-> normalizeEmbeddedUser(RecordField(record, "user")),
     sourceUrl |-> asString(RecordField(asRecord(RecordField(record, "source")), "url")),
     sourceTitle |-> asString(RecordField(asRecord(RecordField(record, "source")), "title")),
     content |-> content, image |-> image, attachment |-> attachment, embed |-> embed,
     connection |-> normalizeConnectionContext(RecordField(record, "connection"))]

\* normalizeBlockFromV3 keeping only the payload that goes with the type.
normalizeBlockFromV3_ByType(value) ==
    LET record == asRecord(value)
        id == Coalesce(asNumber(RecordField(record, "id")), JsonNumber(0))
        typeRaw == Coalesce(asString(RecordField(record, "type")), Text("PendingBlock"))
        type == IF typeRaw.text \in {<< t >> : t \in BlockTypes}
                THEN typeRaw ELSE Text("PendingBlock")
    IN NormalizedBlock(type, id, record,
           IF type = Text("Text")
           THEN normalizeMarkdown(RecordField(record, "content")) ELSE JsonNull,
           IF type = Text("Image")
           THEN normalizeImage(RecordField(record, "image")) ELSE JsonNull,
           IF type = Text("Attachment")
           THEN normalizeAttachment(RecordField(record, "attachment")) ELSE JsonNull,
           IF type = Text("Embed")
           THEN normalizeEmbed(RecordField(record, "embed")) ELSE JsonNull)

\* normalizeBlockFromV3: every payload is normalized from its own field of the
\* record, whatever the type.
normalizeBlockFromV3(value) ==
    LET record == asRecord(value)
        id == Coalesce(asNumber(RecordField(record, "id")), JsonNumber(0))
        typeRaw == Coalesce(asString(RecordField(record, "type")), Text("PendingBlock"))
        type == IF typeRaw.text \in {<< t >> : t \in BlockTypes}
                THEN typeRaw ELSE Text("PendingBlock")
    IN NormalizedBlock(type, id, record,
                       normalizeMarkdown(RecordField(record, "content")),
                       normalizeImage(RecordField(record, "image")),
                       normalizeAttachment(RecordField(record, "attachment")),
                       normalizeEmbed(RecordField(record, "embed")))

\* ------------------------------------------------------------------ images

DEFAULT_MAX_BYTES == 2000000

\* The variants of an image, in the order normalizeImageCandidates lists them.
ImageVariants == << "src", "large", "medium", "small", "square" >>

\* A NormalizedBlock as the image code reads it: image is null (JsonNull) or
\* the record of its variants, each null or a string.
ImageBlock(type, id, image) == [type |-> type, id |-> id, image |-> image]

\* normalizeImageCandidates listing large ahead of src.
normalizeImageCandidates_LargeFirst(block) ==
    IF block.type # "Image" \/ block.image = JsonNull THEN << >>
    ELSE [i \in 1 .. Len(ImageVariants) |->
             LET url == block.image[<< "large", "src", "medium", "small", "square" >>[i]] IN
             IF url = JsonNull THEN << >> ELSE url.text]

\* block.image.<variant> ?? "", for each variant.
normalizeImageCandidates(block) ==
    IF block.type # "Image" \/ block.image = JsonNull THEN << >>
    ELSE [i \in 1 .. Len(ImageVariants) |->
             LET url == block.image[ImageVariants[i]] IN
             IF url = JsonNull THEN << >> ELSE url.text]

\* seen.has(value)
InSeq(seq, value) == \E i \in DOMAIN seq : seq[i] = value

\* The loop of dedupeAndLimit from values[i] on, output being what it pushed.
RECURSIVE DedupeFrom(_, _, _, _)
DedupeFrom(values, i, output, limit) ==
    IF i > Len(values) THEN output
    ELSE LET trimmed == trim(values[i]) IN
         IF trimmed = << >> \/ InSeq(output, trimmed)
         THEN DedupeFrom(values, i + 1, output, limit)
         ELSE IF Len(output) + 1 >= limit THEN Append(output, trimmed)
         ELSE DedupeFrom(values, i + 1, Append(output, trimmed), limit)

dedupeAndLimit(values, limit) == DedupeFrom(values, 1, << >>, limit)

ImageFetchTarget(urls, sourceId) == [urls |-> urls, sourceId |-> sourceId]

extractImageTargetsFromBlock(block, maxImages) ==
    IF maxImages <= 0 THEN << >>
    ELSE LET candidates == dedupeAndLimit(normalizeImageCandidates(block), 5) IN
         IF candidates = << >> THEN << >>
         ELSE << ImageFetchTarget(candidates, block.id) >>

\* The loop of normalizeTargets over targets from targets[i] on.
RECURSIVE TargetsFrom(_, _, _, _)
TargetsFrom(targets, i, output, maxImages) ==
    IF i > Len(targets) THEN output
    ELSE LET urls == dedupeAndLimit(targets[i].urls, 5) IN
         IF urls = << >> THEN TargetsFrom(targets, i + 1, output, maxImages)
         ELSE IF Len(output) + 1 >= maxImages
         THEN Append(output, ImageFetchTarget(urls, targets[i].sourceId))
         ELSE TargetsFrom(targets, i + 1,
                          Append(output, ImageFetchTarget(urls, targets[i].sourceId)),
                          maxImages)

\* normalizeTargets of ImageFetchTarget[] sources.
normalizeTargets(imageSources, maxImages) ==
    IF Len(imageSources) = 0 \/ maxImages <= 0 THEN << >>
    ELSE TargetsFrom(imageSources, 1, << >>, maxImages)

\* What fetchImpl resolves with: status, content type up to ";" (a string of
\* tokens, empty without the header), Content-Length (JsonNull without a usable
\* header) and the length of the body; or what it rejects with.
ImageResponse(status, mimeType, contentLength, bytes) ==
    [kind |-> "response", status |-> status, mimeType |-> mimeType,
     contentLength |-> contentLength, bytes |-> bytes]
ImageRejection(name) == [kind |-> "rejection", name |-> name]

ImageFetchFailure(url, status, mimeType, contentLength, bytes, reason) ==
    [ok |-> FALSE, url |-> url, status |-> status, mimeType |-> mimeType,
     contentLength |-> contentLength, bytes |-> bytes, reason |-> reason]
ImageFetchSuccess(url, status, mimeType, contentLength, bytes) ==
    [ok |-> TRUE, url |-> url, status |-> status, mimeType |-> mimeType,
     contentLength |-> contentLength, bytes |-> bytes, base64 |-> << "base64", url >>]

\* mimeType || null
OrNull(text) == IF text = << >> THEN JsonNull ELSE JsonString(text)

\* mimeType.startsWith("image/")
IsImageType(mimeType) ==
    Len(mimeType) >= 2 /\ mimeType[1] = "image" /\ mimeType[2] = Slash

\* fetchImageBytes once fetchImpl settled with outcome (the timeout aborts the
\* fetch, which then rejects with an AbortError).
fetchImageBytes(url, outcome, maxBytes) ==
    IF outcome.kind = "rejection"
    THEN ImageFetchFailure(url, JsonNull, JsonNull, JsonNull, JsonNull,
                           IF outcome.name = "AbortError" THEN "timeout"
                           ELSE "network_error")
    ELSE LET status == JsonNumber(outcome.status)
             mimeType == OrNull(outcome.mimeType)
             contentLength == outcome.contentLength
         IN IF ~ResponseOk(outcome.status)
            THEN ImageFetchFailure(url, status, mimeType, contentLength, JsonNull,
                                   "http_error")
            ELSE IF ~IsImageType(outcome.mimeType)
            THEN ImageFetchFailure(url, status, mimeType, contentLength, JsonNull,
                                   "non_image_content_type")
            ELSE IF contentLength # JsonNull /\ contentLength.num > maxBytes
            THEN ImageFetchFailure(url, status, mimeType, contentLength, JsonNull,
                                   "content_length_exceeded")
            ELSE IF outcome.bytes = 0
            THEN ImageFetchFailure(url, status, mimeType, contentLength,
                                   JsonNumber(0), "empty_body")
            ELSE IF outcome.bytes > maxBytes
            THEN ImageFetchFailure(url, status, mimeType, contentLength,
                                   JsonNumber(outcome.bytes), "body_too_large")
            ELSE ImageFetchSuccess(url, status, JsonString(outcome.mimeType),
                                   contentLength, JsonNumber(outcome.bytes))

\* The ImagePayloadResult of fetchTarget.
ImagePayloadResult(target, attemptedUrls, success, failure) ==
    [targetIndex |-> 0, sourceId |-> target.sourceId, candidateUrls |-> target.urls,
     attemptedUrls |-> attemptedUrls,
     payload |-> IF success = JsonNull THEN JsonNull
                 ELSE [mimeType |-> success.mimeType, base64 |-> success.base64],
     failure |-> failure,
     successMeta |-> IF success = JsonNull THEN JsonNull
                     ELSE [url |-> success.url, status |-> success.status,
                           mimeType |-> success.mimeType,
                           contentLength |-> success.contentLength,
                           bytes |-> success.bytes]]

\* buildSummary: the ImageFetchDetail of one result.
ImageFetchDetail(result) ==
    IF result.successMeta # JsonNull
    THEN [target_index |-> result.targetIndex, source_id |-> result.sourceId,
          candidate_urls |-> result.candidateUrls,
          attempted_urls |-> result.attemptedUrls,
          selected_url |-> JsonString(result.successMeta.url), success |-> TRUE,
          attempts |-> Len(result.attemptedUrls), reason |-> JsonNull,
          status |-> result.successMeta.status]
    ELSE [target_index |-> result.targetIndex, source_id |-> result.sourceId,
          candidate_urls |-> result.candidateUrls,
          attempted_urls |-> result.attemptedUrls,
          selected_url |-> IF result.failure = JsonNull THEN JsonNull
                           ELSE JsonString(result.failure.url),
          success |-> FALSE,
          attempts |-> Len(result.attemptedUrls),
          reason |-> IF result.failure = JsonNull THEN Text("network_error")
                     ELSE Text(result.failure.reason),
          status |-> IF result.failure = JsonNull THEN JsonNull
                     ELSE result.failure.status]

\* ------------------------------------------------------------------ state

VARIABLES
    config,   \* the ServerConfig the client was built with
    active,   \* ConcurrencyLimiter.active
    queue,    \* ConcurrencyLimiter.queue: the calls whose resolver is queued
    arrivals, \* how many times acquire() was called
    req,      \* per call: where it is and what it did
    tool,     \* the tool call the server is handling
    web,      \* the HTTP mode: its keys, its sessions, the request it handles
    pure,     \* the call of a function of errors.ts or normalize.ts
    image     \* the image target fetchTarget is fetching

vars == <<config, active, queue, arrivals, req, tool, web, pure, image>>

(* The fields of req[c].  Of the program: op and phase (the method and which  *)
(* of its requests runs), pc (its position), attempt (the loop variable),     *)
(* result (what requestJson returned or threw), outcome (what the method      *)
(* returned or threw).  Observations of what it did: fetches (calls of        *)
(* fetchImpl by the current request), http (the paths of all its calls of     *)
(* fetchImpl), sleeps (the arguments of sleepMs in the current request),      *)
(* draws (per sleep, the hint it was computed from and what random()          *)
(* returned), last (what the request's final fetch resolved or rejected with),*)
(* statusFailures and fetchFailures (responses with a 429 or 5xx status, and  *)
(* rejections of fetch, in the current request), primary (the result of the   *)
(* method's first request), ticket (the arrival number of a queued call),     *)
(* waited (the slot was handed over by release).                              *)
NoLast == [kind |-> "none"]
LastResponse(resp) == [kind |-> "response", resp |-> resp]
LastError(error) == [kind |-> "error", error |-> error]

IdleCall ==
    [op |-> "none", phase |-> "primary", pc |-> "idle", attempt |-> 0,
     fetches |-> 0, sleeps |-> << >>, draws |-> << >>, http |-> << >>,
     last |-> NoLast, statusFailures |-> 0, fetchFailures |-> 0,
     ticket |-> 0, waited |-> FALSE, result |-> NoResult, primary |-> NoResult,
     outcome |-> NoResult]

(* The fields of tool.  Of the program: name (the tool), pc (its position),   *)
(* input (id_or_slug), norm (normalizeChannelInput of it), error (the error   *)
(* the direct lookup threw), items and sourceApi (the search result), choice  *)
(* (the candidate chosen from it), resolution (what resolveChannelFromInput   *)
(* returned or threw), result (the CallToolResult).  Observation: calls (the  *)
(* methods of the client it called, with their argument, in order).           *)
IdleTool ==
    [name |-> "none", pc |-> "idle", input |-> << >>,
     norm |-> NormalizedInput(<< >>, FALSE, Null), error |-> NoError,
     items |-> << >>, sourceApi |-> "none", choice |-> NoResult,
     resolution |-> NoResult, calls |-> << >>, result |-> NoResult]

ClientCall(op, arg) == [op |-> op, arg |-> arg]

\* The client as constructed, and no tool called yet.
InitClient(configs) ==
    /\ config \in configs
    /\ active = 0
    /\ queue = << >>
    /\ arrivals = 0
    /\ req = [c \in Calls |-> IdleCall]
    /\ tool = IdleTool

(* The fields of pure: fn (the function called), pc (called or returned),     *)
(* input (its arguments) and output (what it returned).                       *)
IdlePure == [fn |-> "none", pc |-> "idle", input |-> NoResult, output |-> NoResult]

PureCall(fn, input) == [fn |-> fn, pc |-> "called", input |-> input, output |-> NoResult]

(* The fields of image.map, a call of mapWithConcurrency.  Of the function:  *)
(* items, limit, results (NoMapped where the array has a hole), cursor.       *)
(* Of its workers: workers[w] is the index worker w awaits the mapper for,    *)
(* or -1 once its loop has ended.  Observation: pc, calls (the <<item,        *)
(* index>> the mapper was called with, in order).                            *)
NoMapped == [kind |-> "hole", item |-> "none", index |-> -1]

IdleMap ==
    [pc |-> "idle", items |-> << >>, limit |-> 0, results |-> << >>, cursor |-> 0,
     workers |-> << >>, calls |-> << >>]

(* The fields of image.  Of buildImagePayloads: pc (its position), targets    *)
(* (what normalizeTargets returned), details (summary.details).  Of           *)
(* fetchTarget: attemptedUrls, lastFailure and result (the                    *)
(* ImagePayloadResult).  Observation: block (the block the targets were      *)
(* taken from), fetched (the URLs fetchImpl was called with, in order) and    *)
(* outcomes (what these calls settled with).                                  *)
IdleImage ==
    [pc |-> "idle", block |-> ImageBlock("none", 0, JsonNull), targets |-> << >>,
     attemptedUrls |-> << >>, lastFailure |-> JsonNull, result |-> JsonNull,
     details |-> << >>, fetched |-> << >>, outcomes |-> << >>,
     map |-> IdleMap]

\* No function called and no image target in hand.
InitIdle ==
    /\ pure = IdlePure
    /\ image = IdleImage

InitWith(configs) ==
    /\ InitClient(configs)
    /\ web = StdioWeb
    /\ InitIdle

\* limiter.run up to its first await: acquire() and the position it leaves c in.
\* base is c's record as it enters requestJson.
EnterLimiter(c, base) ==
    LET lim == acquire([active |-> active, queue |-> queue],
                       config.arenaMaxConcurrentRequests, c)
    IN /\ active' = lim.active
       /\ queue' = lim.queue
       /\ arrivals' = arrivals + 1
       /\ req' = [req EXCEPT ![c] =
                    [base EXCEPT !.pc = IF lim.granted = c THEN "acquired" ELSE "queued",
                                 !.ticket = IF lim.granted = c THEN 0
                                            ELSE arrivals + 1]]

\* A public method is called: it calls requestJson, which enters the limiter.
Submit(c, op) ==
    /\ req[c].pc = "idle"
    /\ EnterLimiter(c, [req[c] EXCEPT !.op = op, !.phase = "primary"])
    /\ UNCHANGED <<config, tool, web, pure, image>>

\* limiter.run releasing after a return only: no finally around fn().
Leave_NoReleaseOnThrow(c, seen, result) ==
    LET lim == IF result.kind = "throw"
               THEN [active |-> active, queue |-> queue, granted |-> NoCall]
               ELSE release([active |-> active, queue |-> queue]) IN
    /\ active' = lim.active
    /\ queue' = lim.queue
    /\ req' = [d \in Calls |->
                 IF d = c THEN [seen EXCEPT !.pc = "settled", !.result = result]
                 ELSE IF d = lim.granted
                      THEN [req[d] EXCEPT !.pc = "acquired", !.waited = TRUE,
                                          !.ticket = 0]
                 ELSE req[d]]
    /\ UNCHANGED <<config, arrivals>>

\* requestJson ends with result: the finally of limiter.run releases the slot,
\* and release hands it to the first queued call.  seen is c's record then.
Leave(c, seen, result) ==
    LET lim == release([active |-> active, queue |-> queue]) IN
    /\ active' = lim.active
    /\ queue' = lim.queue
    /\ req' = [d \in Calls |->
                 IF d = c THEN [seen EXCEPT !.pc = "settled", !.result = result]
                 ELSE IF d = lim.granted
                      THEN [req[d] EXCEPT !.pc = "acquired", !.waited = TRUE,
                                          !.ticket = 0]
                 ELSE req[d]]
    /\ UNCHANGED <<config, arrivals>>

\* One iteration of the retry loop up to the await of fetch: after the slot was
\* granted, or after the sleep before a retry ended.
Fetch(c) ==
    /\ req[c].pc \in {"acquired", "sleeping"}
    /\ UNCHANGED <<tool, web, pure, image>>
    /\ IF req[c].attempt <= config.arenaMaxRetries
       THEN /\ req' = [req EXCEPT
                         ![c].pc = "fetching",
                         ![c].waited = FALSE,
                         ![c].fetches = @ + 1,
                         ![c].http = Append(@, RequestPath(req[c].op, req[c].phase))]
            /\ UNCHANGED <<config, active, queue, arrivals>>
       ELSE Leave(c, [req[c] EXCEPT !.waited = FALSE], Throw(LoopEndedError))

\* Step giving the slot back for the time of the sleep.
Step_ReleaseToSleep(c, seen, ended, step, rnd) ==
    IF step.kind = "retry"
    THEN LET lim == release([active |-> active, queue |-> queue]) IN
         /\ active' = lim.active
         /\ queue' = lim.queue
         /\ req' = [d \in Calls |->
                      IF d = c
                      THEN [seen EXCEPT !.pc = "sleeping",
                                        !.attempt = @ + 1,
                                        !.sleeps = Append(@, step.delay),
                                        !.draws = Append(@,
                                            [hint |-> step.hint,
                                             random |-> IF step.hint = NoHint THEN rnd
                                                        ELSE NoDraw])]
                      ELSE IF d = lim.granted
                           THEN [req[d] EXCEPT !.pc = "acquired", !.waited = TRUE,
                                               !.ticket = 0]
                      ELSE req[d]]
         /\ UNCHANGED <<config, arrivals>>
    ELSE Leave(c, [seen EXCEPT !.last = ended], step)

\* Step with the attempt counter a field of the client, shared by its requests.
Step_SharedAttempt(c, seen, ended, step, rnd) ==
    IF step.kind = "retry"
    THEN /\ req' = [d \in Calls |->
                     IF d = c
                     THEN [seen EXCEPT !.pc = "sleeping",
                                       !.attempt = @ + 1,
                                       !.sleeps = Append(@, step.delay),
                                       !.draws = Append(@,
                                           [hint |-> step.hint,
                                            random |-> IF step.hint = NoHint THEN rnd
                                                       ELSE NoDraw])]
                     ELSE [req[d] EXCEPT !.attempt = @ + 1]]
         /\ UNCHANGED <<config, active, queue, arrivals>>
    ELSE Leave(c, [seen EXCEPT !.last = ended], step)

\* The step of the retry loop decided: sleep before a retry, or leave
\* requestJson.  seen is c's record with the failure counted, ended is what the
\* fetch ended with, rnd is what random() returns when the delay is computed
\* without a hint.
Step(c, seen, ended, step, rnd) ==
    IF step.kind = "retry"
    THEN /\ req' = [req EXCEPT ![c] =
                     [seen EXCEPT !.pc = "sleeping",
                                  !.attempt = @ + 1,
                                  !.sleeps = Append(@, step.delay),
                                  !.draws = Append(@,
                                      [hint |-> step.hint,
                                       random |-> IF step.hint = NoHint THEN rnd
                                                  ELSE NoDraw])]]
         /\ UNCHANGED <<config, active, queue, arrivals>>
    ELSE Leave(c, [seen EXCEPT !.last = ended], step)

\* fetch resolved with resp.
Respond(c, resp, rnd) ==
    /\ req[c].pc = "fetching"
    /\ UNCHANGED <<tool, web, pure, image>>
    /\ Step(c,
            [req[c] EXCEPT !.statusFailures =
                               IF resp.status = 429 \/ resp.status >= 500
                               THEN @ + 1 ELSE @],
            LastResponse(resp),
            HandleResponse(resp, req[c].attempt, ExpectNoContent(req[c].op),
                           RequestPath(req[c].op, req[c].phase), config, rnd),
            rnd)

\* The catch block counting the rejections of fetch apart from the statuses.
Fail_OwnCounter(c, error, rnd) ==
    /\ req[c].pc = "fetching"
    /\ UNCHANGED <<tool, web, pure, image>>
    /\ Step(c,
            [req[c] EXCEPT !.fetchFailures = @ + 1],
            LastError(error),
            HandleFetchError(error, req[c].fetchFailures, config, rnd),
            rnd)

\* fetch rejected: a network failure, or the abort by the request's timeout.
Fail(c, error, rnd) ==
    /\ req[c].pc = "fetching"
    /\ UNCHANGED <<tool, web, pure, image>>
    /\ Step(c,
            [req[c] EXCEPT !.fetchFailures = @ + 1],
            LastError(error),
            HandleFetchError(error, req[c].attempt, config, rnd),
            rnd)

\* search throwing the 403 of /v3/search when /v2/search fails too.
Settle_OriginalError(c) ==
    /\ req[c].pc = "settled"
    /\ UNCHANGED <<tool, web, pure, image>>
    /\ LET r == [req[c] EXCEPT !.primary = IF req[c].phase = "primary"
                                            THEN req[c].result ELSE @]
           path == RequestPath(r.op, r.phase)
       IN IF r.result.kind = "return"
          THEN /\ req' = [req EXCEPT ![c] =
                           [r EXCEPT !.pc = "done",
                                     !.outcome = Return(Normalized(r.op, r.phase,
                                                            r.result.value, path))]]
               /\ UNCHANGED <<config, active, queue, arrivals>>
          ELSE IF HasFallback(r.op) /\ r.phase = "primary"
                  /\ ShouldFallback(r.result.error, config)
          THEN /\ EnterLimiter(c, [r EXCEPT !.phase = "fallback", !.attempt = 0,
                                            !.fetches = 0, !.sleeps = << >>,
                                            !.draws = << >>, !.last = NoLast,
                                            !.statusFailures = 0,
                                            !.fetchFailures = 0,
                                            !.result = NoResult])
               /\ UNCHANGED config
          ELSE /\ req' = [req EXCEPT ![c] = [r EXCEPT !.pc = "done",
                                                      !.outcome =
                                                          IF r.phase = "fallback"
                                                          THEN r.primary
                                                          ELSE r.result]]
               /\ UNCHANGED <<config, active, queue, arrivals>>

\* The method continues after its requestJson settled: it returns the normalized
\* payload, throws the error, or (search) calls searchV2.
Settle(c) ==
    /\ req[c].pc = "settled"
    /\ UNCHANGED <<tool, web, pure, image>>
    /\ LET r == [req[c] EXCEPT !.primary = IF req[c].phase = "primary"
                                            THEN req[c].result ELSE @]
           path == RequestPath(r.op, r.phase)
       IN IF r.result.kind = "return"
          THEN /\ req' = [req EXCEPT ![c] =
                           [r EXCEPT !.pc = "done",
                                     !.outcome = Return(Normalized(r.op, r.phase,
                                                            r.result.value, path))]]
               /\ UNCHANGED <<config, active, queue, arrivals>>
          ELSE IF HasFallback(r.op) /\ r.phase = "primary"
                  /\ ShouldFallback(r.result.error, config)
          THEN /\ EnterLimiter(c, [r EXCEPT !.phase = "fallback", !.attempt = 0,
                                            !.fetches = 0, !.sleeps = << >>,
                                            !.draws = << >>, !.last = NoLast,
                                            !.statusFailures = 0,
                                            !.fetchFailures = 0,
                                            !.result = NoResult])
               /\ UNCHANGED config
          ELSE /\ req' = [req EXCEPT ![c] = [r EXCEPT !.pc = "done",
                                                      !.outcome = r.result]]
               /\ UNCHANGED <<config, active, queue, arrivals>>

NextWith(calls, ops, responses, errors, randoms) ==
    \E c \in calls :
        \/ \E op \in ops : Submit(c, op)
        \/ Fetch(c)
        \/ \E resp \in responses, rnd \in randoms : Respond(c, resp, rnd)
        \/ \E error \in errors, rnd \in randoms : Fail(c, error, rnd)
        \/ Settle(c)

\* ------------------------------------------------------------------ get_channel_contents

\* The one call of the client a tool has in flight.
ToolCall == 1

\* toolSuccess, toolError: the text is a sequence of its parts.
ToolSuccess(structuredContent) ==
    [isError |-> FALSE, text |-> << >>, structuredContent |-> structuredContent]
ToolError(message) ==
    [isError |-> TRUE, text |-> << "Error: " >> \o message,
     structuredContent |-> NoResult]

\* ------------------------------------------------------------------ user-facing errors

\* typeof value === "string" && value.trim() !== ""
IsFilledString(value) == value.type = "string" /\ trim(value.text) # << >>

\* asDetailsMessage: details.message, message, error or error.message of the
\* body, the first of them that is a string with more than white space; null
\* (JsonNull) without one.
asDetailsMessage(responseBody) ==
    IF ~IsRecordLike(responseBody) THEN JsonNull
    ELSE LET details == RecordField(responseBody, "details")
             error == RecordField(responseBody, "error")
         IN IF IsRecordLike(details) /\ IsFilledString(RecordField(details, "message"))
            THEN RecordField(details, "message")
            ELSE IF IsFilledString(RecordField(responseBody, "message"))
            THEN RecordField(responseBody, "message")
            ELSE IF IsFilledString(error) THEN error
            ELSE IF IsRecordLike(error) /\ IsFilledString(RecordField(error, "message"))
            THEN RecordField(error, "message")
            ELSE JsonNull

\* ArenaErrorContext: each field a JSON value, Undefined when left out.
ErrorContext(operation, target, searchFallbackEnabled) ==
    [operation |-> operation, target |-> target,
     searchFallbackEnabled |-> searchFallbackEnabled]

\* `${value}` of a string or a number.
TemplateText(value) ==
    IF value.type = "number" THEN << ToString(value.num) >> ELSE value.text

\* ` (${context.target})`, or nothing without a target.
TargetText(context) ==
    IF context.target # Undefined
    THEN << " (" >> \o TemplateText(context.target) \o << ")" >>
    ELSE << >>

\* The operation of the message: context.operation when it is a non-empty
\* string, else "Operation"; then the target.
OperationText(context) ==
    IF context.operation.type = "string" /\ context.operation.text # << >>
    THEN context.operation.text \o TargetText(context)
    ELSE << "Operation" >> \o TargetText(context)

\* ` Details: ${details}`, or nothing without details.
DetailsSuffix(error) ==
    LET details == asDetailsMessage(error.responseBody) IN
    IF details # JsonNull THEN << " Details: " >> \o details.text ELSE << >>

\* toUserFacingError answering any 403 of search_arena with the Premium message,
\* whatever searchFallbackEnabled is.
toUserFacingError_AlwaysPremium(error, context) ==
    IF error.type # "ArenaApiError"
    THEN IF error.type = "value" THEN << "Unexpected error while talking to Are.na." >>
         ELSE << error.message >>
    ELSE LET operation == OperationText(context)
             suffix == DetailsSuffix(error)
         IN CASE error.status = 400 ->
                    operation \o << " failed because the request was invalid." >> \o suffix
              [] error.status = 401 ->
                    << "Access denied. Check ARENA_ACCESS_TOKEN and try again." >> \o suffix
              [] error.status = 403 ->
                    IF context.operation = JsonString(<< "search_arena" >>)
                    THEN << "Search is unavailable on this account tier. Enable v2 fallback or upgrade to Premium." >>
                    ELSE << "Access denied for " >> \o operation
                         \o << ". This usually means missing permissions." >> \o suffix
              [] error.status = 404 ->
                    operation \o << " failed because the requested resource was not found." >>
                    \o suffix
              [] error.status = 422 -> operation \o << " failed validation." >> \o suffix
              [] error.status = 429 ->
                    IF error.retryAfterSeconds # NoHint
                    THEN << "Are.na rate limit exceeded. Retry after ",
                            ToString(error.retryAfterSeconds), " seconds." >>
                    ELSE << "Are.na rate limit exceeded. Retry in a moment." >>
              [] error.status >= 500 ->
                    << "Are.na API is temporarily unavailable. Retry shortly." >>
              [] OTHER -> operation \o << " failed with status ",
                                          ToString(error.status), "." >> \o suffix

\* toUserFacingError(error, context): the message, a sequence of its parts, by
\* the kind of error (an ArenaApiError, another Error, or a thrown value that is
\* no Error: type "value") and, for an ArenaApiError, by its status.
\* (retryAfterSeconds is printed in its hint units.)
toUserFacingError(error, context) ==
    IF error.type # "ArenaApiError"
    THEN IF error.type = "value" THEN << "Unexpected error while talking to Are.na." >>
         ELSE << error.message >>
    ELSE LET operation == OperationText(context)
             suffix == DetailsSuffix(error)
         IN CASE error.status = 400 ->
                    operation \o << " failed because the request was invalid." >> \o suffix
              [] error.status = 401 ->
                    << "Access denied. Check ARENA_ACCESS_TOKEN and try again." >> \o suffix
              [] error.status = 403 ->
                    IF /\ context.operation = JsonString(<< "search_arena" >>)
                       /\ context.searchFallbackEnabled = JsonBool(FALSE)
                    THEN << "Search is unavailable on this account tier. Enable v2 fallback or upgrade to Premium." >>
                    ELSE << "Access denied for " >> \o operation
                         \o << ". This usually means missing permissions." >> \o suffix
              [] error.status = 404 ->
                    operation \o << " failed because the requested resource was not found." >>
                    \o suffix
              [] error.status = 422 -> operation \o << " failed validation." >> \o suffix
              [] error.status = 429 ->
                    IF error.retryAfterSeconds # NoHint
                    THEN << "Are.na rate limit exceeded. Retry after ",
                            ToString(error.retryAfterSeconds), " seconds." >>
                    ELSE << "Are.na rate limit exceeded. Retry in a moment." >>
              [] error.status >= 500 ->
                    << "Are.na API is temporarily unavailable. Retry shortly." >>
              [] OTHER -> operation \o << " failed with status ",
                                          ToString(error.status), "." >> \o suffix

\* ------------------------------------------------------------------ tool errors

\* The context the catch of a tool's handler passes: its name, and as target
\* id_or_slug (get_channel_contents), block_id or connection_id (here 1), none
\* for create_channel and create_block.
ToolContext(name, input) ==
    ErrorContext(JsonString(<< name >>),
                 CASE name = "get_channel_contents" -> JsonString(input)
                   [] name \in {"create_channel", "create_block"} -> Undefined
                   [] OTHER -> JsonNumber(1),
                 Undefined)

\* The tool awaits method op of the client with argument arg; seen is the tool's
\* record as it calls.
CallClient(seen, pc, op, arg) ==
    /\ tool' = [seen EXCEPT !.pc = pc, !.calls = Append(@, ClientCall(op, arg))]
    /\ EnterLimiter(ToolCall, [IdleCall EXCEPT !.op = op])
    /\ UNCHANGED <<config, web, pure, image>>

\* resolveChannelFromInput returned resolved: the handler goes on to fetch the
\* contents of resolved.idOrSlug.
Resolved(seen, resolved) ==
    CallClient([seen EXCEPT !.resolution = Return(resolved)], "contents",
               "getChannelContents", resolved.idOrSlug)

\* resolveChannelFromInput threw error: the handler's catch answers with it.
Rejected(seen, error) ==
    /\ tool' = [seen EXCEPT !.pc = "done", !.resolution = Throw(error),
                            !.result = ToolError(toUserFacingError(
                                           error, ToolContext("get_channel_contents",
                                                              seen.input)))]
    /\ UNCHANGED <<config, active, queue, arrivals, req, web, pure, image>>

\* The handler of get_channel_contents is called with id_or_slug = input:
\* resolveChannelFromInput normalizes it and looks the channel up.
GetChannelContents(input) ==
    /\ tool.pc = "idle"
    /\ req[ToolCall].pc = "idle"
    /\ LET norm == normalizeChannelInput(input) IN
       CallClient([tool EXCEPT !.name = "get_channel_contents", !.input = input,
                               !.norm = norm],
                  "lookup", "getChannel", norm.normalized)

\* The direct lookup ended; owner is the owner of the channel the API returned.
DirectLookupDone(owner) ==
    /\ tool.pc = "lookup"
    /\ req[ToolCall].pc = "done"
    /\ LET out == req[ToolCall].outcome
           channel == Channel(tool.norm.normalized, owner)
           error == IF out.kind = "return"
                    THEN assertChannelOwnerMatch(channel, tool.norm.expectedOwnerSlug)
                    ELSE out.error
       IN IF error = NoError
          THEN Resolved(tool, ResolvedChannel(channel, tool.norm.normalized,
                            IF tool.norm.usedUrlExtraction THEN "url-extracted"
                            ELSE "direct",
                            "none", tool.norm.expectedOwnerSlug))
          ELSE IF SearchAfter(error)
          THEN CallClient([tool EXCEPT !.error = error], "search", "search",
                          SearchParams(tool.input))
          ELSE Rejected(tool, error)

\* The search ended; items is what the API's answer normalizes to.
SearchDone(items) ==
    /\ tool.pc = "search"
    /\ req[ToolCall].pc = "done"
    /\ LET out == req[ToolCall].outcome IN
       IF out.kind = "throw" THEN Rejected(tool, out.error)
       ELSE LET choice == ResolveFromSearch(items, tool.norm.normalized,
                                            tool.input, tool.error)
                seen == [tool EXCEPT !.items = items,
                                     !.sourceApi = out.value.sourceApi,
                                     !.choice = choice]
            IN IF choice.kind = "lookup"
               THEN CallClient(seen, "lookup2", "getChannel", IdOrSlug(choice.selected))
               ELSE Rejected(seen, choice.error)

\* The lookup of the chosen candidate searching again after its own 404.
SearchLookupDone_SearchAgain(owner) ==
    /\ tool.pc = "lookup2"
    /\ req[ToolCall].pc = "done"
    /\ LET out == req[ToolCall].outcome
           idOrSlug == IdOrSlug(tool.choice.selected)
           channel == Channel(idOrSlug, owner)
           error == IF out.kind = "return"
                    THEN assertChannelOwnerMatch(channel, tool.norm.expectedOwnerSlug)
                    ELSE out.error
       IN IF error = NoError
          THEN Resolved(tool, ResolvedChannel(channel, idOrSlug, tool.choice.strategy,
                                              tool.sourceApi,
                                              tool.norm.expectedOwnerSlug))
          ELSE IF SearchAfter(error)
          THEN CallClient([tool EXCEPT !.error = error], "search", "search",
                          SearchParams(tool.input))
          ELSE Rejected(tool, error)

\* The lookup of the chosen candidate ended.
SearchLookupDone(owner) ==
    /\ tool.pc = "lookup2"
    /\ req[ToolCall].pc = "done"
    /\ LET out == req[ToolCall].outcome
           idOrSlug == IdOrSlug(tool.choice.selected)
           channel == Channel(idOrSlug, owner)
           error == IF out.kind = "return"
                    THEN assertChannelOwnerMatch(channel, tool.norm.expectedOwnerSlug)
                    ELSE out.error
       IN IF error = NoError
          THEN Resolved(tool, ResolvedChannel(channel, idOrSlug, tool.choice.strategy,
                                              tool.sourceApi,
                                              tool.norm.expectedOwnerSlug))
          ELSE Rejected(tool, error)

\* getChannelContents ended: the handler answers.
ContentsDone ==
    /\ tool.pc = "contents"
    /\ req[ToolCall].pc = "done"
    /\ tool' = [tool EXCEPT
                  !.pc = "done",
                  !.result = IF req[ToolCall].outcome.kind = "return"
                             THEN ToolSuccess(tool.resolution.value)
                             ELSE ToolError(toUserFacingError(
                                      req[ToolCall].outcome.error,
                                      ToolContext("get_channel_contents", tool.input)))]
    /\ UNCHANGED <<config, active, queue, arrivals, req, web, pure, image>>

NextResolveWith(inputs, owners, results, responses, errors) ==
    \/ \E input \in inputs : GetChannelContents(input)
    \/ \E owner \in owners : DirectLookupDone(owner)
    \/ \E items \in results : SearchDone(items)
    \/ \E owner \in owners : SearchLookupDone(owner)
    \/ ContentsDone
    \/ Fetch(ToolCall)
    \/ \E resp \in responses : Respond(ToolCall, resp, 0)
    \/ \E error \in errors : Fail(ToolCall, error, 0)
    \/ Settle(ToolCall)

\* ------------------------------------------------------------------ write tools

WriteTools == {"create_channel", "create_block", "connect_block",
               "disconnect_connection", "move_connection"}

\* The method of the client the handler of the tool calls.
ToolOp(name) ==
    CASE name = "create_channel" -> "createChannel"
      [] name = "create_block" -> "createBlock"
      [] name = "connect_block" -> "connectBlock"
      [] name = "disconnect_connection" -> "disconnectConnection"
      [] name = "move_connection" -> "moveConnection"

\* The handler of write tool name is called, over stdio or by the transport
\* for the request the HTTP server is handling, whose AuthInfo is extra.authInfo:
\* it asks requireWriteScope, then calls the client.
CallWriteTool(name) ==
    /\ tool.pc = "idle"
    /\ req[ToolCall].pc = "idle"
    /\ \/ web.mode = "stdio"
       \/ /\ web.mode = "http"
          /\ web.pc = "handling"
          /\ web.request.method = "POST"
          /\ web.request.body = name
    /\ LET denied == RequireWriteScope(web.mode, web.did.auth) IN
       IF denied # << >>
       THEN /\ tool' = [tool EXCEPT !.name = name, !.pc = "done",
                                    !.result = ToolError(denied)]
            /\ UNCHANGED <<config, active, queue, arrivals, req, web, pure, image>>
       ELSE CallClient([tool EXCEPT !.name = name], "write", ToolOp(name), << name >>)

\* The method of the client ended: the handler answers.
WriteDone ==
    /\ tool.pc = "write"
    /\ req[ToolCall].pc = "done"
    /\ tool' = [tool EXCEPT
                  !.pc = "done",
                  !.result = IF req[ToolCall].outcome.kind = "return"
                             THEN ToolSuccess(req[ToolCall].outcome)
                             ELSE ToolError(toUserFacingError(
                                      req[ToolCall].outcome.error,
                                      ToolContext(tool.name, tool.input)))]
    /\ UNCHANGED <<config, active, queue, arrivals, req, web, pure, image>>

\* ------------------------------------------------------------------ HTTP requests

\* A request for the MCP path arrives: the middleware and the route run up to
\* transport.handleRequest.
Receive(r) ==
    /\ web.mode = "http"
    /\ web.pc = "idle"
    /\ web.count < MaxRequests
    /\ LET did == HandleMcp(r, web, web.count + 1) IN
       web' = [web EXCEPT !.pc = IF did.handled THEN "handling" ELSE "answered",
                          !.request = r,
                          !.did = did,
                          !.sessions = did.sessions,
                          !.count = @ + 1]
    /\ UNCHANGED <<config, active, queue, arrivals, req, tool, pure, image>>

\* The response is complete (for a tool call: the handler has answered); the
\* server is ready for the next request.
Answer ==
    /\ web.pc \in {"answered", "handling"}
    /\ (web.pc = "handling" /\ web.request.body \in WriteTools) => tool.pc = "done"
    /\ web' = [web EXCEPT !.pc = "idle", !.request = NoRequest,
                          !.did = Handling(0, FALSE, NoAuthInfo, {}, FALSE)]
    /\ tool' = IdleTool
    /\ req' = [req EXCEPT ![ToolCall] = IdleCall]
    /\ UNCHANGED <<config, active, queue, arrivals, pure, image>>

NextHttpWith(requests, responses, errors) ==
    \/ \E r \in requests : Receive(r)
    \/ \E name \in WriteTools : CallWriteTool(name)
    \/ WriteDone
    \/ Answer
    \/ Fetch(ToolCall)
    \/ \E resp \in responses : Respond(ToolCall, resp, 0)
    \/ \E error \in errors : Fail(ToolCall, error, 0)
    \/ Settle(ToolCall)

\* ------------------------------------------------------------------ HTTP runtimes

\* What the steps of the runtimes leave as it is.
RuntimeStep == UNCHANGED <<config, active, queue, arrivals, req, tool, pure, image>>

\* A POST that gets a runtime of its own (any POST when stateless, an
\* initialize without session header when stateful): createRuntime, up to the
\* await of transport.handleRequest.
PostCreate ==
    /\ web.mode = "http"
    /\ web.shut.pc # "down"
    /\ Len(web.runtimes) < MaxRequests
    /\ web' = [web EXCEPT !.runtimes = Append(@, Runtime)]
    /\ RuntimeStep

\* onsessioninitialized, called by the transport while it handles the
\* initialize request: sessions.set(sessionId, runtimeRef).
SessionInitialized(k) ==
    /\ web.stateful
    /\ web.runtimes[k].pc = "handling"
    /\ web.runtimes[k].session = 0
    /\ web' = [web EXCEPT !.runtimes[k].session = k, !.sessions = @ \cup {k}]
    /\ RuntimeStep

\* transport.handleRequest resolved: withEphemeralRuntime goes on to close the
\* transport; the stateful branch is done.
HandleRequestResolved(k) ==
    /\ web.runtimes[k].pc = "handling"
    /\ web' = [web EXCEPT !.runtimes[k].pc = IF web.stateful THEN "finished"
                                             ELSE "closing"]
    /\ RuntimeStep

\* transport.handleRequest rejected: withEphemeralRuntime rejects with it, and
\* the catch of the POST handler answers 500.
HandleRequestRejected(k) ==
    /\ web.runtimes[k].pc = "handling"
    /\ web' = [web EXCEPT !.runtimes[k].pc = "failed"]
    /\ RuntimeStep

\* withEphemeralRuntime: await runtime.transport.close().
EphemeralCloseTransport(k) ==
    /\ web.runtimes[k].pc = "closing"
    /\ web' = [closeTransport(web, k) EXCEPT !.runtimes[k].pc = "closingServer"]
    /\ RuntimeStep

\* withEphemeralRuntime: await runtime.closeServer(); the handler returns.
EphemeralCloseServer(k) ==
    /\ web.runtimes[k].pc = "closingServer"
    /\ web' = [closeServer(web, k) EXCEPT !.runtimes[k].pc = "finished"]
    /\ RuntimeStep

\* The DELETE route for the session of runtime k: transport.handleRequest,
\* where the transport closes itself or not (closes), then
\* sessions.delete(sessionId).
DeleteSession(k, closes) ==
    /\ web.stateful
    /\ web.shut.pc # "down"
    /\ k \in web.sessions
    /\ web' = [(IF closes THEN closeTransport(web, k) ELSE web)
                 EXCEPT !.sessions = @ \ {k}]
    /\ RuntimeStep

\* shutdown, one turn of its loop over sessions.values() up to its first
\* await: transport.close() of the next runtime in the map, whose onclose
\* takes it out of the map (the map keeps the order in which the sessions
\* were initialized, which the model does not: any of them may be the next);
\* after the last one, sessions.clear() and the close of the HTTP server.
ShutdownNext ==
    /\ web.mode = "http"
    /\ web.shut.pc \in {"up", "loop"}
    /\ IF web.sessions = {}
       THEN web' = [web EXCEPT !.shut.pc = "down"]
       ELSE \E k \in web.sessions :
                web' = [closeTransport(web, k) EXCEPT !.shut = [pc |-> "server", at |-> k]]
    /\ RuntimeStep

\* shutdown: await runtime.closeServer() of the runtime whose transport it closed.
ShutdownCloseServer ==
    /\ web.shut.pc = "server"
    /\ web' = [closeServer(web, web.shut.at) EXCEPT !.shut.pc = "loop"]
    /\ RuntimeStep

NextRuntimes ==
    \/ PostCreate
    \/ \E k \in 1 .. Len(web.runtimes) : SessionInitialized(k)
    \/ \E k \in 1 .. Len(web.runtimes) : HandleRequestResolved(k)
    \/ \E k \in 1 .. Len(web.runtimes) : HandleRequestRejected(k)
    \/ \E k \in 1 .. Len(web.runtimes) : EphemeralCloseTransport(k)
    \/ \E k \in 1 .. Len(web.runtimes) : EphemeralCloseServer(k)
    \/ \E k \in 1 .. Len(web.runtimes), closes \in BOOLEAN : DeleteSession(k, closes)
    \/ ShutdownNext
    \/ ShutdownCloseServer

\* ------------------------------------------------------------------ function calls

\* The function fn, called with pure.input, returns output.
ReturnFrom(fn, output) ==
    /\ pure.fn = fn
    /\ pure.pc = "called"
    /\ pure' = [pure EXCEPT !.pc = "returned", !.output = output]
    /\ UNCHANGED <<config, active, queue, arrivals, req, tool, web, image>>

ToUserFacingError ==
    ReturnFrom("toUserFacingError",
               toUserFacingError(pure.input.error, pure.input.context))

NormalizeMarkdown == ReturnFrom("normalizeMarkdown", normalizeMarkdown(pure.input))

NormalizePaginationMeta ==
    ReturnFrom("normalizePaginationMeta", normalizePaginationMeta(pure.input))

NormalizeSearchResponseV2 ==
    ReturnFrom("normalizeSearchResponseV2", normalizeSearchResponseV2(pure.input))

NormalizeChannelInput ==
    ReturnFrom("normalizeChannelInput", normalizeChannelInput(pure.input))

NormalizeBlockFromV3 ==
    ReturnFrom("normalizeBlockFromV3", normalizeBlockFromV3(pure.input))

\* The server at rest, and one function called with one of the inputs.
InitPure(calls) ==
    /\ InitClient(ConfigSpace({0}, {1}, {100}, {TRUE}))
    /\ web = StdioWeb
    /\ image = IdleImage
    /\ pure \in calls

\* ------------------------------------------------------------------ image fetching

\* buildImagePayloads for the targets of a block, up to the first call of
\* fetchImpl: extractImageTargetsFromBlock, normalizeTargets, and fetchTarget
\* entering its loop for the one target.
BuildImagePayloads(block, maxImages) ==
    /\ image.pc = "idle"
    /\ LET targets == normalizeTargets(extractImageTargetsFromBlock(block, maxImages),
                                       maxImages)
       IN image' = IF targets = << >>
                   THEN [image EXCEPT !.pc = "done", !.block = block]
                   ELSE [image EXCEPT !.pc = "fetching", !.block = block,
                                      !.targets = targets,
                                      !.attemptedUrls = << targets[1].urls[1] >>,
                                      !.fetched = << targets[1].urls[1] >>]
    /\ UNCHANGED <<config, active, queue, arrivals, req, tool, web, pure>>

\* fetchImpl settled for the URL the loop of fetchTarget is at: the target ends
\* with the success, the loop goes on to the next URL after a failure, or the
\* target ends with the last failure; buildSummary then reports the result.
ImageFetched(outcome) ==
    /\ image.pc = "fetching"
    /\ LET target == image.targets[1]
           at == Len(image.attemptedUrls)
           fetchResult == fetchImageBytes(target.urls[at], outcome, DEFAULT_MAX_BYTES)
           seen == [image EXCEPT !.outcomes = Append(@, outcome)]
           success == ImagePayloadResult(target, image.attemptedUrls, fetchResult,
                                         JsonNull)
           failure == ImagePayloadResult(target, image.attemptedUrls, JsonNull,
                                         fetchResult)
       IN image' = IF fetchResult.ok
                   THEN [seen EXCEPT !.pc = "done", !.result = success,
                                     !.details = << ImageFetchDetail(success) >>]
                   ELSE IF at < Len(target.urls)
                   THEN [seen EXCEPT !.lastFailure = fetchResult,
                                     !.attemptedUrls = Append(@, target.urls[at + 1]),
                                     !.fetched = Append(@, target.urls[at + 1])]
                   ELSE [seen EXCEPT !.pc = "done", !.lastFailure = fetchResult,
                                     !.result = failure,
                                     !.details = << ImageFetchDetail(failure) >>]
    /\ UNCHANGED <<config, active, queue, arrivals, req, tool, web, pure>>

\* ------------------------------------------------------------------ mapWithConcurrency

\* What the mapper resolves with for an item and its index (fetchTarget: the
\* ImagePayloadResult of the target, with targetIndex).
Mapped(item, index) == [kind |-> "mapped", item |-> item, index |-> index]

\* Math.max(1, Math.min(limit, items.length))
workerCount(limit, length) ==
    LET least == IF limit <= length THEN limit ELSE length
    IN IF least >= 1 THEN least ELSE 1

\* The result put into the first hole of results, whatever its index.
StoreResult_InCompletionOrder(results, currentIndex, value) ==
    LET holes == {i \in 1 .. Len(results) : results[i] = NoMapped}
        first == CHOOSE i \in holes : \A j \in holes : i <= j
    IN [results EXCEPT ![first] = value]

\* results[currentIndex] = (what the mapper resolved with); the indices of the
\* code count from 0.
StoreResult(results, currentIndex, value) ==
    [results EXCEPT ![currentIndex + 1] = value]

\* mapWithConcurrency(items, limit, mapper) up to its await of Promise.all: []
\* for no items; else Array.from starts the workers one after the other, each
\* running to its first await: worker w takes index w - 1 and calls the mapper.
\* (item === undefined is false for every item of an ImageFetchTarget[].)
MapWithConcurrency(items, limit) ==
    /\ image.map.pc = "idle"
    /\ LET count == workerCount(limit, Len(items)) IN
       image' = IF Len(items) = 0
                THEN [image EXCEPT !.map = [@ EXCEPT !.pc = "done", !.limit = limit]]
                ELSE [image EXCEPT !.map =
                         [pc |-> "running", items |-> items, limit |-> limit,
                          results |-> [i \in 1 .. Len(items) |-> NoMapped],
                          cursor |-> count,
                          workers |-> [w \in 1 .. count |-> w - 1],
                          calls |-> [w \in 1 .. count |-> << items[w], w - 1 >>]]]
    /\ UNCHANGED <<config, active, queue, arrivals, req, tool, web, pure>>

\* The mapper call worker w awaits resolved: the worker stores the result and
\* goes round its loop, taking the index at the cursor and calling the mapper
\* for it, or ending when the cursor is past the items; Promise.all resolves
\* with results when the last worker has ended.
MapperSettled(w) ==
    /\ image.map.pc = "running"
    /\ w \in 1 .. Len(image.map.workers)
    /\ image.map.workers[w] >= 0
    /\ LET m == image.map
           currentIndex == m.workers[w]
           stored == [m EXCEPT !.results =
                         StoreResult(@, currentIndex,
                                     Mapped(m.items[currentIndex + 1], currentIndex))]
           ended == [stored EXCEPT !.workers[w] = -1]
       IN image' = [image EXCEPT !.map =
                       IF m.cursor < Len(m.items)
                       THEN [stored EXCEPT !.workers[w] = m.cursor,
                                           !.cursor = @ + 1,
                                           !.calls = Append(@, << m.items[m.cursor + 1],
                                                                  m.cursor >>)]
                       ELSE IF \A v \in 1 .. Len(m.workers) : ended.workers[v] = -1
                       THEN [ended EXCEPT !.pc = "done"]
                       ELSE ended]
    /\ UNCHANGED <<config, active, queue, arrivals, req, tool, web, pure>>

\* ------------------------------------------------------------------ inputs

Randoms == 0 .. (RandomDen - 1)

\* Retry-After: none, "1", "0.0015".
RetryAfterHeaders ==
    {RetryAfterHeader("absent", 0),
     RetryAfterHeader("seconds", HintUnitsPerSecond),
     RetryAfterHeader("seconds", 15)}

OkStatuses == {200, 204}
FailedStatuses == {400, 403, 404, 429, 500, 503}

\* A success with any body; a failure with any Retry-After and any body.
Responses ==
    {HttpResponse(s, RetryAfterHeader("absent", 0), b) :
        s \in OkStatuses, b \in {"json", "badjson", "text"}}
    \cup {HttpResponse(s, h, b) : s \in FailedStatuses, h \in RetryAfterHeaders,
                                  b \in {"json", "badjson"}}

\* The request engine: one call of getMe, against every response, under every
\* retry budget and backoff base.
Init == InitWith(ConfigSpace(0 .. MaxRetriesBound, {1}, {100, 500}, {TRUE}))

Next == NextWith({1}, {"getMe"}, Responses, FetchErrors, Randoms)

Spec == Init /\ [][Next]_vars

\* The methods over the engine: one call of any method, with the fallback flag
\* on and off, against a success, a 204, a permission failure, a not-found, a
\* retryable failure and a network failure.
OpsResponses ==
    {HttpResponse(s, RetryAfterHeader("absent", 0), "json") :
        s \in {200, 204, 403, 404, 503}}

OpsErrors == {[type |-> "TypeError", message |-> "fetch failed"]}

InitOps == InitWith(ConfigSpace({0, 1}, {1}, {100}, BOOLEAN))

NextOps == NextWith({1}, Ops, OpsResponses, OpsErrors, {0})

SpecOps == InitOps /\ [][NextOps]_vars

\* The limiter: NumCalls concurrent calls of one client, against a success, a
\* retryable failure and a network failure.
LimiterResponses ==
    {HttpResponse(s, RetryAfterHeader("absent", 0), "json") : s \in {200, 503}}

InitLimiter == InitWith(ConfigSpace({0, 1}, 1 .. MaxConcurrentBound, {100}, {TRUE}))

NextLimiter == NextWith(Calls, {"getMe"}, LimiterResponses, OpsErrors, {0})

SpecLimiter == InitLimiter /\ [][NextLimiter]_vars

\* Every fetch settles, every sleep ends, and every continuation of an await
\* that has settled runs: the event loop leaves no ready task aside.
FairLimiter ==
    \A c \in Calls :
        /\ WF_vars(Fetch(c))
        /\ WF_vars(\/ \E resp \in LimiterResponses : Respond(c, resp, 0)
                   \/ \E error \in OpsErrors : Fail(c, error, 0))
        /\ WF_vars(Settle(c))

SpecLimiterFair == InitLimiter /\ [][NextLimiter]_vars /\ FairLimiter

\* ------------------------------------------------------------------ tool inputs

\* The sequences over set of length up to n.
SeqsUpTo(set, n) == UNION {[1 .. k -> set] : k \in 0 .. n}

\* segments.join("/")
RECURSIVE JoinPath(_)
JoinPath(segments) ==
    IF segments = << >> THEN << >>
    ELSE IF Len(segments) = 1 THEN << segments[1] >>
    ELSE << segments[1], Slash >> \o JoinPath(Tail(segments))

PathWords == {"channel", "block", "Alice", "s1"}
Hosts == {"are.na", "WWW.ARE.NA", "ex.com"}

UrlOf(host, segments) ==
    << Scheme, Slash, Slash, host >>
    \o (IF segments = << >> THEN << >> ELSE << Slash >> \o JoinPath(segments))

TitleInput == << Space, "My", Space, "Title", Space >>

\* What id_or_slug may be: a URL of any host with any path, a path without
\* host, a title, white space, an escaped owner, doubled and trailing slashes.
ChannelInputs ==
    {UrlOf(host, segments) : host \in Hosts, segments \in SeqsUpTo(PathWords, MaxSegments)}
    \cup {JoinPath(segments) : segments \in SeqsUpTo(PathWords, MaxSegments) \ {<< >>}}
    \cup {TitleInput, << Space >>,
          UrlOf("are.na", << "%41", "S1" >>),
          UrlOf("are.na", << "Channel", "s1" >>),
          << Space >> \o UrlOf("are.na", << "Alice", Slash, "S1" >>) \o << Slash, Space >>,
          << "Alice", Space, Slash, Space, "S1" >>}

\* The inputs the resolution is followed through for: a slug, owner/slug, a
\* title, and URLs with and without an owner.
ResolveInputs ==
    {<< "s1" >>, << "Alice", Slash, "s1" >>, TitleInput,
     UrlOf("are.na", << "channel", "s1" >>),
     UrlOf("WWW.ARE.NA", << "Alice", "s1" >>)}

\* The owner of a channel the API returns: none, one with an empty slug, the
\* expected one in either case, another one.
Owners == {NoOwner, Owner(<< >>), Owner(<< "alice" >>), Owner(<< "Alice" >>),
           Owner(<< "bob" >>)}

\* The kinds of item a search returns, as slug, title and entity type: a
\* channel of slug s1 in another case, channels whose title is an input in
\* another case or padding, a channel without slug, a channel matching slug
\* and title at once, a block with the title.
ItemKinds ==
    {[entityType |-> "Channel", slug |-> << "S1" >>, title |-> << "zz" >>],
     [entityType |-> "Channel", slug |-> << "zz" >>,
      title |-> << Space, "my", Space, "title" >>],
     [entityType |-> "Channel", slug |-> Null, title |-> << "alice", Slash, "S1" >>],
     [entityType |-> "Channel", slug |-> << "s1" >>, title |-> << "My", Space, "Title" >>],
     [entityType |-> "Block", slug |-> Null, title |-> << "My", Space, "Title" >>]}

\* The items of kinds, numbered by their position.
Numbered(kinds) ==
    [i \in 1 .. Len(kinds) |->
        SearchItem(kinds[i].entityType, i, kinds[i].slug, kinds[i].title)]

\* n channels that match nothing.
ManyChannels(n) ==
    [i \in 1 .. n |-> SearchItem("Channel", i, << "zz" >>, << "zz" >>)]

SearchResults ==
    {Numbered(kinds) : kinds \in SeqsUpTo(ItemKinds, MaxItems)}
    \cup {ManyChannels(n) : n \in 3 .. MaxCandidates}

ResolveResponses ==
    {HttpResponse(s, RetryAfterHeader("absent", 0), "json") :
        s \in {200, 401, 403, 404, 503}}

\* The resolution of a channel: get_channel_contents for the inputs of
\* ResolveInputs, against every owner and every search result, with one retry.
InitResolve == InitWith(ConfigSpace({1}, {1}, {100}, BOOLEAN))

NextResolve ==
    NextResolveWith(ResolveInputs, Owners, SearchResults, ResolveResponses, OpsErrors)

SpecResolve == InitResolve /\ [][NextResolve]_vars

\* The normalization of the input: get_channel_contents for every input of
\* ChannelInputs, against every owner and a few search results.
FewResults == {ManyChannels(n) : n \in 0 .. 2}

NextChannelInput ==
    NextResolveWith(ChannelInputs, Owners, FewResults, ResolveResponses, OpsErrors)

SpecChannelInput == InitResolve /\ [][NextChannelInput]_vars

\* ------------------------------------------------------------------ HTTP inputs

ReadKey == << "r1" >>
WriteKey == << "w1" >>

\* The Authorization header: absent; a read key; a write key, with the scheme
\* in lower case and white space in plenty; an unknown key; a key in another
\* case; another scheme; two tokens; no scheme.
Authorizations ==
    {Null,
     << "Bearer", Space, "r1" >>,
     << Space, "bearer", Space, Space, "w1", Space >>,
     << "Bearer", Space, "x1" >>,
     << "Bearer", Space, "R1" >>,
     << "Basic", Space, "w1" >>,
     << "Bearer", Space, "w1", Space, "r1" >>,
     << "w1" >>}

HttpRequests ==
    {HttpRequest("POST", a, session, body) :
        a \in Authorizations, session \in 0 .. MaxRequests,
        body \in {"initialize", "other"} \cup WriteTools}
    \cup {HttpRequest(method, a, session, "none") :
            method \in {"GET", "DELETE", "OPTIONS"}, a \in Authorizations,
            session \in 0 .. MaxRequests}

\* The server over stdio, and over HTTP with every choice of keys (the read
\* keys are never empty: loadHttpConfig), CORS and sessions.
Webs ==
    {StdioWeb}
    \cup {Web("http", readKeys, writeKeys, cors, stateful) :
            readKeys \in {{ReadKey}, {ReadKey, WriteKey}},
            writeKeys \in {{}, {WriteKey}},
            cors \in BOOLEAN, stateful \in BOOLEAN}

HttpResponses ==
    {HttpResponse(s, RetryAfterHeader("absent", 0), "json") : s \in {200, 204, 403}}

\* The write tools and the HTTP mode: MaxRequests requests, one after the
\* other, against a client without retries.
InitHttp ==
    /\ InitClient(ConfigSpace({0}, {1}, {100}, {TRUE}))
    /\ web \in Webs
    /\ InitIdle

NextHttp == NextHttpWith(HttpRequests, HttpResponses, OpsErrors)

SpecHttp == InitHttp /\ [][NextHttp]_vars

\* The runtimes of the HTTP mode: MaxRequests POSTs that get a runtime, with
\* and without sessions, the DELETE of a session and the shutdown, in any order.
InitRuntimes ==
    /\ InitClient(ConfigSpace({0}, {1}, {100}, {TRUE}))
    /\ web \in {Web("http", {ReadKey}, {WriteKey}, FALSE, stateful) :
                   stateful \in BOOLEAN}
    /\ InitIdle

SpecRuntimes == InitRuntimes /\ [][NextRuntimes]_vars

\* ------------------------------------------------------------------ error inputs

\* Response bodies: no object; objects without a usable message; objects with a
\* message in one place or in several.
ErrorBodies ==
    {JsonNull, Text("oops"), JsonArray(<< Text("oops") >>), EmptyObject,
     JsonObject("message" :> Text("m")),
     JsonObject("message" :> JsonString(<< Space >>)),
     JsonObject(("details" :> JsonObject("message" :> Text("d")))
                @@ ("message" :> Text("m"))),
     JsonObject(("details" :> Text("d")) @@ ("message" :> JsonNumber(5))
                @@ ("error" :> Text("e"))),
     JsonObject("error" :> JsonObject("message" :> Text("em"))),
     JsonObject(("message" :> JsonString(<< >>)) @@ ("error" :> JsonString(<< Space >>)))}

\* Every status with a message of its own, and some without.
ErrorStatuses == {302, 400, 401, 403, 404, 409, 418, 422, 429, 500, 503}

ErrorHints == {NoHint, 0, 5 * HintUnitsPerSecond}

ErrorUrls == {"/v3/me", "/v3/search"}

ApiErrors ==
    {ArenaApiError(status, body, hint, url) :
        status \in ErrorStatuses, body \in ErrorBodies, hint \in ErrorHints,
        url \in ErrorUrls}

\* What else a handler can catch: an Error, or a value that is none.
OtherErrors == FetchErrors \cup {OwnerMismatchError, [type |-> "value"]}

ErrorContexts ==
    {ErrorContext(operation, target, flag) :
        operation \in {Undefined, JsonString(<< >>), Text("search_arena"),
                       Text("get_channel")},
        target \in {Undefined, Text("s1"), JsonNumber(7)},
        flag \in {Undefined, JsonBool(TRUE), JsonBool(FALSE)}}

\* toUserFacingError called with every error and every context.
InitErrors ==
    InitPure({PureCall("toUserFacingError", [error |-> error, context |-> context]) :
                 error \in ApiErrors \cup OtherErrors, context \in ErrorContexts})

NextErrors == ToUserFacingError

SpecErrors == InitErrors /\ [][NextErrors]_vars

\* ------------------------------------------------------------------ identifier inputs

\* What id_or_slug may be when it is no URL: words, slashes and blanks in any
\* order.
IdentifierTokens == {"Alice", "s1", "c", Slash, Space}

Identifiers == SeqsUpTo(IdentifierTokens, MaxTokens)

InitIdentifiers ==
    InitPure({PureCall("normalizeChannelInput", input) : input \in Identifiers})

NextIdentifiers == NormalizeChannelInput

SpecIdentifiers == InitIdentifiers /\ [][NextIdentifiers]_vars

\* ------------------------------------------------------------------ normalize inputs

\* The subsets of the names, and the objects giving each name of one a value.
ObjectsOver(names, values) ==
    UNION {{JsonObject(fields) : fields \in [have -> values]} : have \in SUBSET names}

\* What upstream may put in a representation: null, an empty or a filled
\* string, a number.
MarkdownFieldValues == {JsonNull, JsonString(<< >>), Text("md"), Text("other"), JsonNumber(1)}

MarkdownValues ==
    {Undefined, JsonNull, Text("hello"), JsonString(<< >>), JsonNumber(1),
     JsonArray(<< Text("hello") >>)}
    \cup ObjectsOver({"markdown", "html", "plain"}, MarkdownFieldValues)

InitMarkdown == InitPure({PureCall("normalizeMarkdown", value) : value \in MarkdownValues})

NextMarkdown == NormalizeMarkdown

SpecMarkdown == InitMarkdown /\ [][NextMarkdown]_vars

\* The object without fields as a function, and a field that is there with one
\* of the values or is not there.
NoFields == [k \in {} |-> Undefined]
Optional(name, values) == {NoFields} \cup {name :> value : value \in values}

\* The meta of a page of results: any current page, next page and flag, with
\* and without the other counts.
PaginationValues ==
    {Undefined, JsonNull, Text("meta")}
    \cup {JsonObject(current @@ next @@ flag @@ rest) :
            current \in Optional("current_page", {JsonNumber(1)}),
            next \in Optional("next_page", {JsonNull, JsonNumber(0), JsonNumber(2),
                                            JsonNumber(-1), Text("2")}),
            flag \in Optional("has_more_pages", {JsonNull, JsonBool(TRUE),
                                                 JsonBool(FALSE), Text("true")}),
            rest \in {NoFields,
                      ("prev_page" :> JsonNull) @@ ("per_page" :> JsonNumber(10))
                      @@ ("total_pages" :> JsonNumber(3))
                      @@ ("total_count" :> JsonNumber(25))}}

InitPagination ==
    InitPure({PureCall("normalizePaginationMeta", value) : value \in PaginationValues})

NextPagination == NormalizePaginationMeta

SpecPagination == InitPagination /\ [][NextPagination]_vars

\* Upstream items of a v2 search answer: one with id, slug, title and class, and
\* a value that is no object.
RawItems ==
    {JsonObject(("id" :> JsonNumber(1)) @@ ("slug" :> Text("s1"))
                @@ ("title" :> Text("Title")) @@ ("class" :> Text("Image"))),
     JsonNull}

\* One of the arrays of the answer: absent, no array, or up to MaxItems items.
RawArrays(name) ==
    Optional(name, {Text("none")} \cup {JsonArray(items) : items \in SeqsUpTo(RawItems, MaxItems)})

MaxPage == 3

SearchV2Responses ==
    {JsonNull}
    \cup {JsonObject(blocks @@ channels @@ users @@ current @@ total) :
            blocks \in RawArrays("blocks"), channels \in RawArrays("channels"),
            users \in RawArrays("users"),
            current \in Optional("current_page", {JsonNumber(n) : n \in 1 .. MaxPage}),
            total \in Optional("total_pages", {JsonNumber(MaxPage - 1)})}

InitSearchV2 ==
    InitPure({PureCall("normalizeSearchResponseV2", response) :
                 response \in SearchV2Responses})

NextSearchV2 == NormalizeSearchResponseV2

SpecSearchV2 == InitSearchV2 /\ [][NextSearchV2]_vars

\* ------------------------------------------------------------------ block inputs

\* What upstream may declare as the type: nothing, each type of a block, one
\* that is none.
DeclaredTypes ==
    {NoFields} \cup {"type" :> Text(t) : t \in BlockTypes \cup {"Channel"}}

ContentValues ==
    Optional("content", {JsonNull, Text("hello"), JsonString(<< >>),
                         JsonObject("markdown" :> Text("md")),
                         JsonObject("markdown" :> JsonString(<< >>))})

ImageValues ==
    Optional("image", {JsonNull, EmptyObject, JsonObject("src" :> Text("u-src")),
                       JsonObject("large" :> JsonObject("url" :> Text("u-large"))),
                       Text("u-src")})

AttachmentValues ==
    Optional("attachment", {EmptyObject, JsonObject("url" :> Text("u-file")),
                            JsonObject("filename" :> Text("f")),
                            JsonObject("url" :> JsonNumber(1))})

EmbedValues ==
    Optional("embed", {JsonNull, EmptyObject, JsonObject("html" :> Text("h")),
                       JsonArray(<< Text("h") >>)})

\* The records of a block, with or without an id, and values that are none.
BlockValues ==
    {JsonObject(id @@ type @@ content @@ im @@ attachment @@ embed) :
        id \in Optional("id", {JsonNumber(7)}), type \in DeclaredTypes,
        content \in ContentValues, im \in ImageValues,
        attachment \in AttachmentValues, embed \in EmbedValues}
    \cup {Undefined, JsonNull, Text("hello"), JsonArray(<< >>)}

InitBlocks == InitPure({PureCall("normalizeBlockFromV3", value) : value \in BlockValues})

NextBlocks == NormalizeBlockFromV3

SpecBlocks == InitBlocks /\ [][NextBlocks]_vars

\* ------------------------------------------------------------------ image inputs

\* The image of a block: each variant missing, a URL of its own (with white
\* space around it for large), or the URL that src has.
ImageRecords ==
    {[src |-> src, large |-> large, medium |-> medium, small |-> small,
      square |-> square] :
        src \in {JsonNull, Text("u-src")},
        large \in {JsonNull, JsonString(<< Space, "u-large", Space >>), Text("u-src")},
        medium \in {JsonNull, Text("u-medium"), JsonString(<< Space >>)},
        small \in {JsonNull, Text("u-small")},
        square \in {JsonNull, Text("u-square"), Text("u-src")}}

ImageBlocks ==
    {ImageBlock("Image", 7, im) : im \in ImageRecords}
    \cup {ImageBlock("Image", 7, JsonNull),
          ImageBlock("Text", 7, [src |-> Text("u-src"), large |-> JsonNull,
                                 medium |-> JsonNull, small |-> JsonNull,
                                 square |-> JsonNull])}

ImageType == << "image", Slash, "png" >>

\* What fetchImpl settles with: an image; every kind of answer that is none;
\* the abort of the timeout and a network failure.
ImageOutcomes ==
    {ImageResponse(200, ImageType, JsonNull, 10),
     ImageResponse(200, ImageType, JsonNumber(10), 10),
     ImageResponse(403, << "text", Slash, "html" >>, JsonNull, 7),
     ImageResponse(200, << >>, JsonNull, 10),
     ImageResponse(200, ImageType, JsonNumber(DEFAULT_MAX_BYTES + 1), 10),
     ImageResponse(200, ImageType, JsonNull, 0),
     ImageResponse(200, ImageType, JsonNull, DEFAULT_MAX_BYTES + 1),
     ImageRejection("AbortError"), ImageRejection("TypeError")}

InitImages ==
    /\ InitClient(ConfigSpace({0}, {1}, {100}, {TRUE}))
    /\ web = StdioWeb
    /\ pure = IdlePure
    /\ image = IdleImage

NextImages ==
    \/ \E block \in ImageBlocks, maxImages \in {0, 1} :
          BuildImagePayloads(block, maxImages)
    \/ \E outcome \in ImageOutcomes : ImageFetched(outcome)

SpecImages == InitImages /\ [][NextImages]_vars

\* mapWithConcurrency for up to MaxTargets targets, of which two may be the
\* same, with every limit from 0 to one more than the targets.
MapItems == SeqsUpTo({"t1", "t2"}, MaxTargets)

MapLimits == 0 .. (MaxTargets + 1)

NextMap ==
    \/ \E items \in MapItems, limit \in MapLimits : MapWithConcurrency(items, limit)
    \/ \E w \in 1 .. MaxTargets : MapperSettled(w)

SpecMap == InitImages /\ [][NextMap]_vars

\* Two requests of one client side by side, each with a budget of up to two
\* retries, against successes, retryable failures, network failures and
\* timeouts.
Siblings == {1, 2}

InitSiblings == InitWith(ConfigSpace({0, 1, 2}, {MaxConcurrentBound}, {100}, {TRUE}))

NextSiblings == NextWith(Siblings, {"getMe"}, LimiterResponses, FetchErrors, Randoms)

SpecSiblings == InitSiblings /\ [][NextSiblings]_vars

\* ------------------------------------------------------------------ properties

Holding == {c \in Calls : req[c].pc \in {"acquired", "fetching", "sleeping"}}
InFlight == {c \in Calls : req[c].pc = "fetching"}
Over(c) == req[c].pc \in {"settled", "done"}
Min(a, b) == IF a <= b THEN a ELSE b
IsOkStatus(status) == status >= 200 /\ status <= 299
IsRetryable(status) == status = 429 \/ (status >= 500 /\ status <= 599)
Failures(c) == req[c].statusFailures + req[c].fetchFailures

\* C1: the calls holding a limiter slot number exactly `active`, which never
\* exceeds arenaMaxConcurrentRequests; so neither do the calls of fetch in flight.
C1_BoundedConcurrency ==
    /\ active <= config.arenaMaxConcurrentRequests
    /\ Cardinality(Holding) = active
    /\ Cardinality(InFlight) <= config.arenaMaxConcurrentRequests

\* Both slots of a limit of 2 in flight, one of them on a retry, a third call queued.
C1_Witness ==
    /\ config.arenaMaxConcurrentRequests = 2
    /\ Cardinality(InFlight) = 2
    /\ \E c \in InFlight : req[c].attempt > 0
    /\ Len(queue) = 1

\* C2: a queued call leaves the queue only by taking a slot, and only when every
\* other queued call arrived after it; a call takes a slot at once only when no
\* call is queued; and a release with calls queued hands the slot to one of them.
C2_FifoRelease ==
    [][\A c \in Calls :
         /\ (req[c].pc = "queued" /\ req'[c].pc # "queued") =>
                /\ req'[c].pc = "acquired"
                /\ \A d \in Calls \ {c} :
                       req[d].pc = "queued" => req[d].ticket > req[c].ticket
         /\ (req[c].pc \in {"idle", "settled"} /\ req'[c].pc = "acquired") =>
                \A d \in Calls : req[d].pc # "queued"
         /\ (c \in Holding /\ req'[c].pc = "settled"
               /\ \E d \in Calls : req[d].pc = "queued") =>
                \E d \in Calls : req[d].pc = "queued" /\ req'[d].pc = "acquired"
      ]_vars

\* A release handed its slot to a queued call while another call stays queued.
C2_Witness ==
    \E c, d \in Calls :
        /\ req[c].pc = "acquired" /\ req[c].waited
        /\ req[d].pc = "queued"

\* C3: a request that met only retryable statuses (f of them) and at most one
\* success made min(f, maxRetries) + 1 calls of fetch; with f <= maxRetries it
\* returned the parsed body of the success, else it threw the ArenaApiError of
\* the last response.
C3_RetryCalls ==
    \A c \in Calls :
        LET r == req[c]
            f == r.statusFailures
            maxRetries == config.arenaMaxRetries
        IN (/\ Over(c) /\ r.op = "getMe" /\ r.fetchFailures = 0
            /\ r.last.kind = "response"
            /\ (IsOkStatus(r.last.resp.status) \/ IsRetryable(r.last.resp.status)))
           => /\ r.fetches = Min(f, maxRetries) + 1
              /\ f <= maxRetries => r.result = Return(ParsedBody(r.last.resp))
              /\ f > maxRetries =>
                    r.result = Throw(ArenaApiError(
                                   r.last.resp.status, ParsedBody(r.last.resp),
                                   parseRetryAfterSeconds(r.last.resp.retryAfter),
                                   "/v3/me"))

\* maxRetries = 2 against a permanent 503: three calls, then the typed error.
C3_Witness ==
    \E c \in Calls :
        /\ config.arenaMaxRetries = 2
        /\ req[c].pc = "settled"
        /\ req[c].statusFailures = 3 /\ req[c].fetchFailures = 0
        /\ req[c].fetches = 3
        /\ req[c].result.kind = "throw"
        /\ req[c].result.error.type = "ArenaApiError"
        /\ req[c].result.error.status = 503

\* C4: every sleep follows a 429, a 5xx or a rejected fetch; a response with any
\* other failed status ends the request at once with the ArenaApiError of that
\* status, parsed body, hint and URL (one call and no sleep when it is the first
\* answer); a 429 or 5xx ends it only when the budget is used up.
C4_NonRetryableStatus ==
    \A c \in Calls :
        LET r == req[c] IN
        /\ Len(r.sleeps) <= Failures(c)
        /\ (Over(c) /\ r.op = "getMe" /\ r.last.kind = "response"
              /\ ~IsOkStatus(r.last.resp.status)) =>
              IF IsRetryable(r.last.resp.status)
              THEN r.attempt = config.arenaMaxRetries
              ELSE /\ r.result = Throw(ArenaApiError(
                                     r.last.resp.status, ParsedBody(r.last.resp),
                                     parseRetryAfterSeconds(r.last.resp.retryAfter),
                                     "/v3/me"))
                   /\ r.fetches = Failures(c) + 1
                   /\ Len(r.sleeps) = Failures(c)
                   /\ Failures(c) = 0 => (r.fetches = 1 /\ r.sleeps = << >>)

\* A 404 with Retry-After: 1 as the first answer, retries left: one call, no sleep.
C4_Witness ==
    \E c \in Calls :
        /\ config.arenaMaxRetries >= 1
        /\ req[c].pc = "settled"
        /\ req[c].result.kind = "throw"
        /\ req[c].result.error.type = "ArenaApiError"
        /\ req[c].result.error.status = 404
        /\ req[c].result.error.retryAfterSeconds = HintUnitsPerSecond
        /\ req[c].fetches = 1 /\ req[c].sleeps = << >>

\* C5: a sleep computed from a hint of h units (h / HintUnitsPerSecond seconds)
\* is the least whole number of ms not below it, at every attempt, base and
\* random; a hint of one second gives 1000 ms; each sleep is followed by one call.
C5_RetryAfterDelay ==
    \A c \in Calls :
        LET r == req[c] IN
        /\ \A k \in 1 .. Len(r.sleeps) :
              r.draws[k].hint # NoHint =>
                 /\ r.draws[k].random = NoDraw
                 /\ r.sleeps[k] * HintUnitsPerSecond >= r.draws[k].hint * 1000
                 /\ (r.sleeps[k] - 1) * HintUnitsPerSecond < r.draws[k].hint * 1000
                 /\ r.draws[k].hint = HintUnitsPerSecond => r.sleeps[k] = 1000
        /\ r.pc = "fetching" => r.fetches = Len(r.sleeps) + 1

\* Retry-After: 1 on the first, retryable answer, then a success: sleeps [1000],
\* two calls.
C5_Witness ==
    \E c \in Calls :
        /\ config.arenaMaxRetries = 2
        /\ req[c].pc = "settled" /\ req[c].result.kind = "return"
        /\ req[c].statusFailures = 1
        /\ req[c].sleeps = <<1000>>
        /\ req[c].draws[1].hint = HintUnitsPerSecond
        /\ req[c].fetches = 2

\* C6: the k-th sleep without a hint (k from 0) is baseMs * 2^k plus the floor of
\* random() * baseMs; a sleep precedes every call but the first and none follows
\* the last: base 100, random 0, two retries sleep [100, 200]; the third sleep
\* at base 500 and random 1/2 is 2250.
C6_BackoffDelay ==
    \A c \in Calls :
        LET r == req[c]
            baseMs == config.arenaBackoffBaseMs
        IN /\ Len(r.draws) = Len(r.sleeps)
           /\ \A k \in 1 .. Len(r.sleeps) :
                 r.draws[k].hint = NoHint =>
                    LET jitter == r.sleeps[k] - baseMs * Pow2(k - 1)
                        rnd == r.draws[k].random
                    IN /\ rnd \in 0 .. (RandomDen - 1)
                       /\ jitter >= 0
                       /\ jitter * RandomDen <= rnd * baseMs
                       /\ (jitter + 1) * RandomDen > rnd * baseMs
                       /\ (k = 3 /\ baseMs = 500 /\ 2 * rnd = RandomDen) =>
                              r.sleeps[k] = 2250
           /\ r.pc = "sleeping" => r.fetches = Len(r.sleeps)
           /\ r.pc \in {"fetching", "settled", "done"} =>
                 r.fetches = Len(r.sleeps) + 1
           /\ (/\ baseMs = 100 /\ Len(r.sleeps) = 2
               /\ \A k \in 1 .. 2 : r.draws[k].hint = NoHint /\ r.draws[k].random = 0)
              => r.sleeps = <<100, 200>>

\* maxRetries 2, base 100, random 0 against a permanent 503: sleeps [100, 200],
\* three calls, no third sleep.
C6_Witness ==
    \E c \in Calls :
        /\ config.arenaMaxRetries = 2 /\ config.arenaBackoffBaseMs = 100
        /\ req[c].pc = "settled" /\ req[c].result.kind = "throw"
        /\ req[c].statusFailures = 3
        /\ req[c].fetches = 3
        /\ req[c].sleeps = <<100, 200>>
        /\ \A k \in 1 .. 2 : req[c].draws[k].random = 0

\* C7: a request makes at most maxRetries + 1 calls whatever fails; one that
\* ends on a rejected fetch has used them all and throws that very error, not
\* an ArenaApiError; every rejected fetch that was retried slept without a hint.
C7_FetchFailure ==
    \A c \in Calls :
        LET r == req[c]
            noHint == {k \in 1 .. Len(r.draws) : r.draws[k].hint = NoHint}
            ended == IF Over(c) /\ r.last.kind = "error" THEN 1 ELSE 0
        IN /\ r.fetches <= config.arenaMaxRetries + 1
           /\ Cardinality(noHint) >= r.fetchFailures - ended
           /\ (Over(c) /\ r.last.kind = "error") =>
                 /\ r.result = Throw(r.last.error)
                 /\ r.last.error \in FetchErrors
                 /\ r.attempt = config.arenaMaxRetries
                 /\ r.fetches = config.arenaMaxRetries + 1

\* maxRetries 2: a 503, then two aborted fetches; the AbortError comes out as is.
C7_Witness ==
    \E c \in Calls :
        /\ config.arenaMaxRetries = 2
        /\ req[c].pc = "settled"
        /\ req[c].statusFailures = 1 /\ req[c].fetchFailures = 2
        /\ req[c].fetches = 3 /\ Len(req[c].sleeps) = 2
        /\ req[c].result = Throw([type |-> "AbortError",
                                  message |-> "This operation was aborted"])

PrimaryForbidden(c) ==
    /\ req[c].primary.kind = "throw"
    /\ req[c].primary.error.type = "ArenaApiError"
    /\ req[c].primary.error.status = 403

CalledLegacy(c) == \E i \in 1 .. Len(req[c].http) : req[c].http[i] = "/v2/search"

\* C8: a finished search whose /v3/search request returned gives that payload
\* tagged v3; one whose /v3/search request threw a typed 403 with the fallback
\* enabled has called /v2/search and, when that returned, gives the /v2/search
\* payload tagged v2-fallback and no error.
C8_SearchSourceApi ==
    \A c \in Calls :
        LET r == req[c] IN
        (r.pc = "done" /\ r.op = "search") =>
           /\ r.primary.kind = "return" =>
                 r.outcome = Return([sourceApi |-> "v3", payload |-> r.primary.value,
                                     from |-> "/v3/search"])
           /\ (PrimaryForbidden(c) /\ config.arenaEnableV2SearchFallback) =>
                 /\ r.phase = "fallback" /\ CalledLegacy(c)
                 /\ r.result.kind = "return" =>
                       r.outcome = Return([sourceApi |-> "v2-fallback",
                                           payload |-> r.result.value,
                                           from |-> "/v2/search"])

\* /v3/search answered 403, /v2/search answered 200: the result is v2-fallback.
C8_Witness ==
    \E c \in Calls :
        /\ req[c].pc = "done" /\ req[c].op = "search"
        /\ PrimaryForbidden(c)
        /\ req[c].http = <<"/v3/search", "/v2/search">>
        /\ req[c].outcome.kind = "return"
        /\ req[c].outcome.value.sourceApi = "v2-fallback"

\* C9: a search has called /v2/search only if its /v3/search request threw a
\* typed 403 with the fallback enabled, and a finished one has if it did; after
\* any other failure it throws the error of /v3/search as it is.
C9_FallbackCondition ==
    \A c \in Calls :
        LET r == req[c]
            cond == PrimaryForbidden(c) /\ config.arenaEnableV2SearchFallback
        IN r.op = "search" =>
              /\ CalledLegacy(c) => cond
              /\ r.pc = "done" => (CalledLegacy(c) <=> cond)
              /\ (r.pc = "done" /\ r.primary.kind = "throw" /\ ~cond) =>
                    /\ r.outcome = r.primary
                    /\ r.phase = "primary"

\* Fallback disabled, /v3/search answers 403: the 403 is thrown after one call.
C9_Witness ==
    \E c \in Calls :
        /\ ~config.arenaEnableV2SearchFallback
        /\ req[c].pc = "done" /\ req[c].op = "search"
        /\ PrimaryForbidden(c)
        /\ req[c].outcome = req[c].primary
        /\ req[c].http = <<"/v3/search">>

WritePaths == {"/v3/channels", "/v3/blocks", "/v3/connections",
               "/v3/connections/:id", "/v3/connections/:id/move"}

\* C10: a write method calls only its own /v3 path and never enters a fallback;
\* one that ends on a 403 throws a typed 403 and made no call after it (one call
\* in all when the 403 is the first answer), whatever the fallback flag.
C10_WritesNeverLegacy ==
    \A c \in Calls :
        LET r == req[c] IN
        r.op \in WriteOps =>
           /\ \A i \in 1 .. Len(r.http) : r.http[i] \in WritePaths
           /\ ~CalledLegacy(c)
           /\ r.phase = "primary"
           /\ (r.pc = "done" /\ r.last.kind = "response" /\ r.last.resp.status = 403) =>
                 /\ r.outcome.kind = "throw"
                 /\ r.outcome.error.type = "ArenaApiError"
                 /\ r.outcome.error.status = 403
                 /\ Len(r.http) = Failures(c) + 1
                 /\ Failures(c) = 0 => Len(r.http) = 1

\* createBlock answered 403 with the fallback enabled: one call, to /v3/blocks.
C10_Witness ==
    \E c \in Calls :
        /\ config.arenaEnableV2SearchFallback
        /\ req[c].pc = "done" /\ req[c].op = "createBlock"
        /\ req[c].outcome.kind = "throw"
        /\ req[c].outcome.error.type = "ArenaApiError"
        /\ req[c].outcome.error.status = 403
        /\ req[c].http = <<"/v3/blocks">>

\* C11: a request made with expectNoContent whose fetch resolves with a 204
\* returns the value undefined (not the null of an unread body, nor a parsed
\* object), throws nothing, and calls fetch no more: one call when the 204 is
\* the first answer, one call per earlier failure plus one otherwise.
C11_NoContent ==
    \A c \in Calls :
        (/\ Over(c)
         /\ ExpectNoContent(req[c].op)
         /\ req[c].last.kind = "response"
         /\ req[c].last.resp.status = 204)
        => /\ req[c].result.kind = "return"
           /\ req[c].result.value = Undefined
           /\ req[c].result.value # ParsedBody(req[c].last.resp)
           /\ req[c].fetches = Failures(c) + 1
           /\ Len(req[c].sleeps) = Failures(c)
           /\ req[c].http = [k \in 1 .. req[c].fetches |-> "/v3/connections/:id"]

C11_Witness ==
    \E c \in Calls :
        /\ req[c].pc = "done"
        /\ req[c].op = "disconnectConnection"
        /\ req[c].last = LastResponse(HttpResponse(204, RetryAfterHeader("absent", 0),
                                                   "json"))
        /\ req[c].fetches = 1
        /\ req[c].sleeps = << >>
        /\ req[c].result = Return(Undefined)
        /\ req[c].outcome = Return(Undefined)

\* ------------------------------------------------------------------ properties of the resolver

(* The properties read the tool's record with definitions of their own:     *)
(* lower-casing by LowerToken, the indices of tool.items, the calls in order.*)
Lowered(str) == [i \in 1 .. Len(str) |-> LowerToken(str[i])]
IsBlank(str) == \A i \in 1 .. Len(str) : str[i] = Space
\* str without the white space around it, when inner is that.
IsTrimOf(inner, str) ==
    \E a, b \in 0 .. Len(str) :
        /\ a + Len(inner) + b = Len(str)
        /\ \A i \in 1 .. a : str[i] = Space
        /\ \A i \in 1 .. b : str[Len(str) + 1 - i] = Space
        /\ inner = SubSeq(str, a + 1, Len(str) - b)
        /\ (inner # << >> => inner[1] # Space /\ inner[Len(inner)] # Space)
CanonicalHosts == {"are.na", "WWW.ARE.NA"}

ResolvedOk == tool.resolution.kind = "return"
ResolveFailed == tool.resolution.kind = "throw"
Searched == tool.choice.kind # "none"
LookupCalls == {i \in 1 .. Len(tool.calls) : tool.calls[i].op = "getChannel"}
SearchCalls == {i \in 1 .. Len(tool.calls) : tool.calls[i].op = "search"}
NotFound404 == ArenaApiError(404, EmptyObject, NoHint, "/v3/channels/:id")

CandidateIdx == {i \in 1 .. Len(tool.items) : tool.items[i].entityType = "Channel"}
SlugIdx ==
    {i \in CandidateIdx :
        /\ tool.items[i].slug # Null
        /\ Lowered(tool.items[i].slug) = Lowered(tool.norm.normalized)}
TitleIdx ==
    {i \in CandidateIdx :
        \E t \in {<< "my", Space, "title" >>, << "alice", Slash, "s1" >>,
                  << "s1" >>, << "zz" >>, << "yy" >>} :
            /\ IsTrimOf(t, Lowered(tool.items[i].title))
            /\ IsTrimOf(t, Lowered(tool.input))}
TheOne(set) == CHOOSE i \in set : TRUE
SlugOrId(item) == IF item.slug = Null THEN << ToString(item.id) >> ELSE item.slug

\* C12: with an owner expectation derived from the input, a resolution that
\* returns a channel returns one whose owner is present, has a non-empty slug
\* and equals the expectation up to case, on every strategy; a channel that
\* was found without such an owner makes the resolution throw an owner error,
\* and no contents are fetched.
C12_OwnerVerified ==
    tool.norm.expectedOwnerSlug # Null =>
        /\ ResolvedOk =>
              /\ tool.resolution.value.channel.owner.present
              /\ tool.resolution.value.channel.owner.slug # << >>
              /\ Lowered(tool.resolution.value.channel.owner.slug)
                    = tool.norm.expectedOwnerSlug
              /\ tool.resolution.value.strategy \in
                    {"direct", "url-extracted", "search-exact-slug",
                     "search-exact-title", "search-single"}
        /\ (/\ tool.pc = "done"
            /\ Len(tool.calls) \in {1, 3}
            /\ req[ToolCall].outcome.kind = "return")
           => /\ ResolveFailed
              /\ tool.resolution.error \in {OwnerMissingError, OwnerMismatchError}
              /\ tool.result.isError
              /\ \A i \in 1 .. Len(tool.calls) : tool.calls[i].op # "getChannelContents"

C12_Witness ==
    /\ tool.norm.expectedOwnerSlug = << "alice" >>
    /\ tool.pc = "done"
    /\ tool.choice.kind = "lookup"
    /\ tool.choice.strategy = "search-single"
    /\ req[ToolCall].op = "getChannel"
    /\ req[ToolCall].outcome.kind = "return"
    /\ tool.resolution = Throw(OwnerMissingError)

C14_SearchOnlyAfter404 ==
    [][(/\ tool.pc = "lookup"
        /\ req[ToolCall].pc = "done"
        /\ tool' # tool)
       => IF /\ req[ToolCall].outcome.kind = "throw"
             /\ req[ToolCall].outcome.error # NotFound404
          THEN /\ tool'.pc = "done"
               /\ tool'.calls = tool.calls
               /\ tool'.resolution = Throw(req[ToolCall].outcome.error)
               /\ req' = req
          ELSE /\ req[ToolCall].outcome.kind = "throw"
                  => /\ tool'.pc = "search"
                     /\ Len(tool'.calls) = 2
                     /\ tool'.calls[2].op = "search"
                     /\ tool'.error = NotFound404
               /\ req[ToolCall].outcome.kind = "return"
                  => tool'.pc \in {"contents", "done"}]_vars

C14_Witness ==
    /\ tool.pc = "done"
    /\ Len(tool.calls) = 1
    /\ req[ToolCall].fetches = 2
    /\ req[ToolCall].outcome =
          Throw(ArenaApiError(503, EmptyObject, NoHint, "/v3/channels/:id"))
    /\ tool.resolution = req[ToolCall].outcome
    /\ tool.result.isError

\* C15: for the title-only input " My Title ", a 404 of the direct lookup and a
\* search answer with exactly one channel of that title (up to case and
\* padding), the calls are, in order, getChannel("My Title"), search with
\* {query "My Title", type Channel, scope my, per 10, sort score_desc} and
\* getChannel(the candidate's slug): two lookups and one search; the strategy is
\* search-exact-title, and a resolution that returns is followed by
\* getChannelContents of the candidate's slug.
C15_TitleFallback ==
    (/\ tool.input = << Space, "My", Space, "Title", Space >>
     /\ Searched
     /\ Cardinality(TitleIdx) = 1)
    => LET candidate == tool.items[TheOne(TitleIdx)]
           expected == << ClientCall("getChannel", << "My", Space, "Title" >>),
                          ClientCall("search",
                                     [query |-> << "My", Space, "Title" >>,
                                      type |-> "Channel", scope |-> "my",
                                      per |-> 10, sort |-> "score_desc"]),
                          ClientCall("getChannel", candidate.slug) >>
       IN /\ candidate.slug # Null
          /\ tool.error = NotFound404
          /\ tool.choice.kind = "lookup"
          /\ tool.choice.strategy = "search-exact-title"
          /\ SubSeq(tool.calls, 1, 3) = expected
          /\ Cardinality(LookupCalls) = 2
          /\ Cardinality(SearchCalls) = 1
          /\ tool.pc \in {"contents", "done"}
             => IF ResolvedOk
                THEN /\ tool.resolution.value.strategy = "search-exact-title"
                     /\ tool.resolution.value.idOrSlug = candidate.slug
                     /\ tool.calls = Append(expected,
                                            ClientCall("getChannelContents",
                                                       candidate.slug))
                ELSE /\ tool.calls = expected
                     /\ tool.resolution = req[ToolCall].outcome

C15_Witness ==
    /\ tool.input = << Space, "My", Space, "Title", Space >>
    /\ tool.pc = "done"
    /\ ~tool.result.isError
    /\ Len(tool.items) = 1
    /\ tool.items[1].title = << Space, "my", Space, "title" >>
    /\ tool.resolution.value.strategy = "search-exact-title"
    /\ tool.calls[4] = ClientCall("getChannelContents", << "zz" >>)

\* C16: after the search answered, the candidate is the one channel whose slug
\* equals the normalized identifier up to case, with search-exact-slug, whatever
\* the titles are; failing that the one channel whose title equals the trimmed
\* input up to case, with search-exact-title; failing that the only channel of
\* the answer, with search-single; and the second lookup is of that candidate's
\* slug (its id when it has none).
C16_CandidatePriority ==
    Searched =>
        LET pick == IF Cardinality(SlugIdx) = 1 THEN TheOne(SlugIdx)
                    ELSE IF Cardinality(TitleIdx) = 1 THEN TheOne(TitleIdx)
                    ELSE TheOne(CandidateIdx)
            strategy == IF Cardinality(SlugIdx) = 1 THEN "search-exact-slug"
                        ELSE IF Cardinality(TitleIdx) = 1 THEN "search-exact-title"
                        ELSE "search-single"
        IN IF \/ Cardinality(SlugIdx) = 1
              \/ Cardinality(TitleIdx) = 1
              \/ Cardinality(CandidateIdx) = 1
           THEN /\ tool.choice.kind = "lookup"
                /\ tool.choice.selected = tool.items[pick]
                /\ tool.choice.strategy = strategy
                /\ tool.calls[3] = ClientCall("getChannel", SlugOrId(tool.items[pick]))
                /\ ResolvedOk => /\ tool.resolution.value.strategy = strategy
                                 /\ tool.resolution.value.idOrSlug
                                       = SlugOrId(tool.items[pick])
           ELSE tool.choice.kind = "throw"

\* The slug decides although another candidate alone has the title.
C16_Witness ==
    /\ tool.input = << "Alice", Slash, "s1" >>
    /\ Len(tool.items) = 2
    /\ tool.items[1].title = << "alice", Slash, "S1" >>
    /\ tool.items[1].slug = Null
    /\ tool.items[2].slug = << "S1" >>
    /\ SlugIdx = {2}
    /\ TitleIdx = {1}
    /\ ResolvedOk
    /\ tool.resolution.value.strategy = "search-exact-slug"
    /\ tool.resolution.value.idOrSlug = << "S1" >>

\* C17: a search answer with several channels, of which neither exactly one has
\* the slug nor exactly one has the title, ends the resolution with the
\* ambiguity error, which lists the first five channels at most by title, slug
\* and id; no channel is returned and no second lookup is made.
C17_Ambiguous ==
    (/\ Searched
     /\ Cardinality(CandidateIdx) > 1
     /\ Cardinality(SlugIdx) # 1
     /\ Cardinality(TitleIdx) # 1)
    => /\ tool.pc = "done"
       /\ ResolveFailed
       /\ tool.resolution.error.type = "Error"
       /\ tool.resolution.error.message = "is ambiguous"
       /\ Len(tool.resolution.error.choices) <= 5
       /\ Len(tool.resolution.error.choices) = Min(5, Cardinality(CandidateIdx))
       /\ \A k \in 1 .. Len(tool.resolution.error.choices) :
             \E i \in CandidateIdx :
                /\ Cardinality({j \in CandidateIdx : j <= i}) = k
                /\ tool.resolution.error.choices[k]
                      = [title |-> tool.items[i].title, slug |-> tool.items[i].slug,
                         id |-> tool.items[i].id]
       /\ tool.result.isError
       /\ Len(tool.calls) = 2
       /\ Cardinality(LookupCalls) = 1

C17_Witness ==
    /\ Len(tool.items) = 6
    /\ Cardinality(CandidateIdx) = 6
    /\ tool.pc = "done"
    /\ ResolveFailed
    /\ tool.resolution.error.message = "is ambiguous"
    /\ Len(tool.resolution.error.choices) = 5

\* C18: a search answer without any channel makes the resolution throw the
\* error of the direct lookup itself, the ArenaApiError of status 404 with its
\* body and URL, after the one lookup and the one search.
C18_NotFoundRethrown ==
    (Searched /\ Cardinality(CandidateIdx) = 0)
    => /\ tool.pc = "done"
       /\ tool.resolution = Throw(NotFound404)
       /\ tool.resolution.error = tool.error
       /\ tool.resolution.error.status = 404
       /\ tool.result.isError
       /\ tool.result.text
             = << "Error: ", "get_channel_contents", " (" >> \o tool.input
               \o << ")", " failed because the requested resource was not found." >>
       /\ Len(tool.calls) = 2

\* The answer holds an item, but no channel.
C18_Witness ==
    /\ Searched
    /\ Len(tool.items) = 1
    /\ tool.items[1].entityType = "Block"
    /\ tool.pc = "done"
    /\ tool.resolution = Throw(NotFound404)

\* ------------------------------------------------------------------ properties of the HTTP mode

\* header is "Bearer key" in any case of the scheme, with any white space
\* around its two parts.
Presents(header, key) ==
    /\ header # Null
    /\ \E scheme \in {"Bearer", "bearer", "BEARER"} :
          SelectSeq(header, LAMBDA t : t # Space) = << scheme >> \o key
    /\ header[Len(header) - Len(key) - (IF header[Len(header)] = Space THEN 1 ELSE 0)]
          = Space
PresentsOneOf(header, keys) == \E key \in keys : Presents(header, key)
HasScope(authInfo, scope) ==
    \E i \in 1 .. Len(authInfo.scopes) : authInfo.scopes[i] = scope
IsPreflight(w, r) == w.cors /\ r.method = "OPTIONS"
WriteCallInHand ==
    /\ web.mode = "http"
    /\ web.pc = "handling"
    /\ web.request.method = "POST"
    /\ web.request.body \in WriteTools

\* C19: behind the write-scope check of the HTTP mode, a call of any of the
\* five write tools made with a key that is no write key is answered with the
\* isError result of the denial message and calls no method of the client, so
\* nothing is sent upstream; a denied call never has a request in flight; and a
\* call made with a write key (or over stdio, where no check is configured)
\* calls the one method of its tool.
C19_WriteScope ==
    /\ (WriteCallInHand /\ ~PresentsOneOf(web.request.authorization, web.writeKeys))
       => /\ tool.pc \in {"idle", "done"}
          /\ tool.pc = "done"
             => /\ tool.name = web.request.body
                /\ tool.result.isError
                /\ tool.result.text = << "Error: " >> \o writeScopeError
          /\ tool.calls = << >>
          /\ req[ToolCall] = IdleCall
          /\ active = 0
    /\ (tool.name \in WriteTools /\ tool.pc = "done"
        /\ tool.result = ToolError(writeScopeError))
       => /\ tool.calls = << >>
          /\ req[ToolCall].http = << >>
    /\ (tool.name \in WriteTools /\ tool.pc = "done"
        /\ (web.mode = "stdio"
            \/ PresentsOneOf(web.request.authorization, web.writeKeys)))
       => /\ tool.calls = << ClientCall(ToolOp(tool.name), << tool.name >>) >>
          /\ Len(req[ToolCall].http) >= 1
          /\ \A k \in 1 .. Len(req[ToolCall].http) :
                req[ToolCall].http[k] \in WritePaths

\* A read key calls create_block in a session, on a server that has a write key.
C19_Witness ==
    /\ web.mode = "http"
    /\ web.stateful
    /\ web.writeKeys = {<< "w1" >>}
    /\ web.readKeys = {<< "r1" >>}
    /\ web.request = HttpRequest("POST", << "Bearer", Space, "r1" >>, 1, "create_block")
    /\ web.did.handled
    /\ web.did.auth.scopes = << READ_SCOPE >>
    /\ tool.name = "create_block"
    /\ tool.pc = "done"
    /\ tool.result = ToolError(writeScopeError)
    /\ tool.calls = << >>

Mentions(message, part) == \E i \in DOMAIN message : message[i] = part

MessageCategories ==
    {"invalid request", "credentials", "permission", "premium", "not found",
     "validation", "rate limit", "unavailable", "status"}

\* The fixed text that tells a message of the category.
CategoryTexts(category) ==
    CASE category = "invalid request" -> {" failed because the request was invalid."}
      [] category = "credentials" ->
            {"Access denied. Check ARENA_ACCESS_TOKEN and try again."}
      [] category = "permission" -> {". This usually means missing permissions."}
      [] category = "premium" ->
            {"Search is unavailable on this account tier. Enable v2 fallback or upgrade to Premium."}
      [] category = "not found" ->
            {" failed because the requested resource was not found."}
      [] category = "validation" -> {" failed validation."}
      [] category = "rate limit" ->
            {"Are.na rate limit exceeded. Retry after ",
             "Are.na rate limit exceeded. Retry in a moment."}
      [] category = "unavailable" ->
            {"Are.na API is temporarily unavailable. Retry shortly."}
      [] category = "status" -> {" failed with status "}

CategoriesOf(message) ==
    {category \in MessageCategories :
        \E text \in CategoryTexts(category) : Mentions(message, text)}

\* The category an error of the status is to get, under the context.
StatusCategory(status, context) ==
    CASE status = 400 -> "invalid request"
      [] status = 401 -> "credentials"
      [] status = 403 ->
            IF /\ context.operation = Text("search_arena")
               /\ context.searchFallbackEnabled = JsonBool(FALSE)
            THEN "premium" ELSE "permission"
      [] status = 404 -> "not found"
      [] status = 422 -> "validation"
      [] status = 429 -> "rate limit"
      [] status >= 500 -> "unavailable"
      [] OTHER -> "status"

\* toUserFacingError returned the message of an ArenaApiError.
MessageReturned ==
    /\ pure.fn = "toUserFacingError"
    /\ pure.pc = "returned"
    /\ pure.input.error.type = "ArenaApiError"

\* C21: the message of an ArenaApiError is in exactly one category, the one of
\* its status (for a 403 the Premium message exactly when the operation is
\* search_arena and searchFallbackEnabled is false), and it is the same for
\* every error of that status, body and retryAfterSeconds under that context,
\* whatever its URL.
C21_MessageByStatus ==
    MessageReturned
    => LET error == pure.input.error
           context == pure.input.context
       IN /\ CategoriesOf(pure.output) = {StatusCategory(error.status, context)}
          /\ \A url \in ErrorUrls :
                toUserFacingError([error EXCEPT !.url = url], context) = pure.output

\* A 403 of search_arena without the fallback got the Premium message.
C21_Witness ==
    /\ MessageReturned
    /\ pure.input.error.status = 403
    /\ pure.input.error.responseBody = JsonObject("message" :> Text("m"))
    /\ pure.input.context = ErrorContext(Text("search_arena"), Undefined, JsonBool(FALSE))
    /\ CategoriesOf(pure.output) = {"premium"}

\* C21 as stated: the message is in the category of the status and is a
\* function of the status, the body and the context alone.
C21_FunctionOfStatusBodyContext ==
    MessageReturned
    => LET error == pure.input.error
           context == pure.input.context
       IN /\ CategoriesOf(pure.output) = {StatusCategory(error.status, context)}
          /\ \A url \in ErrorUrls, hint \in ErrorHints :
                toUserFacingError([error EXCEPT !.url = url,
                                                !.retryAfterSeconds = hint],
                                  context) = pure.output

\* ------------------------------------------------------------------ properties of the normalizers

Returned(fn) == pure.fn = fn /\ pure.pc = "returned"

Representations == {"markdown", "html", "plain"}

\* The representations the object supplies as strings, and those with text.
SuppliedStrings(value) ==
    {name \in Representations : RecordField(value, name).type = "string"}
FilledStrings(value) ==
    {name \in SuppliedStrings(value) : RecordField(value, name) # JsonString(<< >>)}

\* All three fields are strings: its own where the object supplies it as a
\* string, else one the object supplies.
BackFilled(value, output) ==
    /\ output # JsonNull
    /\ \A name \in Representations :
          /\ output[name].type = "string"
          /\ IF name \in SuppliedStrings(value)
             THEN output[name] = RecordField(value, name)
             ELSE \E other \in SuppliedStrings(value) :
                     output[name] = RecordField(value, other)

\* C22: normalizeMarkdown gives a bare string s as {markdown: s, html: s,
\* plain: s}; an object null when none of markdown, html and plain is a
\* non-empty string (so {} and {markdown: ""}); and an object with a non-empty
\* string among them all three fields as strings, its own where it is a string
\* and else back-filled from one that is.
C22_Markdown ==
    Returned("normalizeMarkdown")
    => LET value == pure.input
           output == pure.output
       IN /\ value.type = "string"
             => output = NormalizedMarkdown(value, value, value)
          /\ value.type = "object"
             => IF FilledStrings(value) = {}
                THEN output = JsonNull
                ELSE BackFilled(value, output)

\* {html: "md", plain: 1}: markdown and plain are back-filled from html.
C22_Witness ==
    /\ Returned("normalizeMarkdown")
    /\ pure.input = JsonObject(("html" :> Text("md")) @@ ("plain" :> JsonNumber(1)))
    /\ pure.output = NormalizedMarkdown(Text("md"), Text("md"), Text("md"))

\* C22 as stated: an object lacking all three is given as null, and any object
\* supplying one of them as all three non-null strings.
C22_AnySuppliedRepresentation ==
    Returned("normalizeMarkdown")
    => LET value == pure.input
           output == pure.output
       IN /\ value.type = "string"
             => output = NormalizedMarkdown(value, value, value)
          /\ value.type = "object"
             => IF SuppliedStrings(value) = {}
                THEN output = JsonNull
                ELSE BackFilled(value, output)

\* C23: hasMorePages is the has_more_pages of the upstream meta whenever that
\* is a boolean, whatever next_page is, and otherwise whether next_page is a
\* number above 0; {current_page: 1, next_page: 2} gives true.
C23_HasMorePages ==
    Returned("normalizePaginationMeta")
    => LET flag == RecordField(pure.input, "has_more_pages")
           next == RecordField(pure.input, "next_page")
       IN /\ pure.output.hasMorePages
             = IF flag.type = "boolean" THEN flag.bool
               ELSE next.type = "number" /\ next.num > 0
          /\ pure.input = JsonObject(("current_page" :> JsonNumber(1))
                                     @@ ("next_page" :> JsonNumber(2)))
             => pure.output.hasMorePages

\* The flag says false against a next page: false it is.
C23_Witness ==
    /\ Returned("normalizePaginationMeta")
    /\ pure.input = JsonObject(("current_page" :> JsonNumber(1))
                               @@ ("next_page" :> JsonNumber(2))
                               @@ ("has_more_pages" :> JsonBool(FALSE)))
    /\ pure.output.nextPage = JsonNumber(2)
    /\ ~pure.output.hasMorePages

\* The upstream arrays of the answer, as the normalizer reads them.
UpstreamItems(name) == asArray(RecordField(asRecord(pure.input), name))

\* C24: the items are the blocks, then the channels, then the users of the
\* answer, each group whole and in upstream order, and the meta has
\* hasMorePages = (currentPage < totalPages), nextPage = currentPage + 1 when
\* hasMorePages and null otherwise, prevPage = currentPage - 1 when
\* currentPage > 1 and null otherwise.
C24_SearchV2 ==
    Returned("normalizeSearchResponseV2")
    => LET blocks == UpstreamItems("blocks")
           channels == UpstreamItems("channels")
           users == UpstreamItems("users")
           upstream == blocks \o channels \o users
           items == pure.output.items
           meta == pure.output.meta
       IN /\ Len(items) = Len(upstream)
          /\ \A i \in DOMAIN items :
                /\ items[i].raw = upstream[i]
                /\ items[i].entityType
                   = IF i <= Len(blocks) THEN "Block"
                     ELSE IF i <= Len(blocks) + Len(channels) THEN "Channel"
                     ELSE "User"
          /\ meta.hasMorePages = (meta.currentPage.num < meta.totalPages.num)
          /\ meta.nextPage = IF meta.hasMorePages
                             THEN JsonNumber(meta.currentPage.num + 1) ELSE JsonNull
          /\ meta.prevPage = IF meta.currentPage.num > 1
                             THEN JsonNumber(meta.currentPage.num - 1) ELSE JsonNull

\* Two different channels after a block and before a user, on page 1 of 2.
C24_Witness ==
    /\ Returned("normalizeSearchResponseV2")
    /\ Len(UpstreamItems("blocks")) = 1
    /\ Len(UpstreamItems("channels")) = 2
    /\ UpstreamItems("channels")[1] # UpstreamItems("channels")[2]
    /\ Len(UpstreamItems("users")) = 1
    /\ Len(pure.output.items) = 4
    /\ pure.output.items[2].entityType = "Channel"
    /\ pure.output.items[2].raw = UpstreamItems("channels")[1]
    /\ pure.output.meta.currentPage = JsonNumber(1)
    /\ pure.output.meta.nextPage = JsonNumber(2)
    /\ pure.output.meta.hasMorePages

\* ------------------------------------------------------------------ properties of the images

\* The URL of the variant at position k of the block in hand, trimmed; empty
\* when the block has none.
VariantUrl(k) ==
    LET url == image.block.image[ImageVariants[k]] IN
    IF url = JsonNull THEN << >> ELSE trim(url.text)

\* The first variant whose URL is url.
VariantOf(url) ==
    CHOOSE k \in DOMAIN ImageVariants :
        /\ VariantUrl(k) = url
        /\ \A j \in 1 .. (k - 1) : VariantUrl(j) # url

\* The candidates of the block in hand: the different URLs of its variants.
CandidateUrls == {VariantUrl(k) : k \in DOMAIN ImageVariants} \ {<< >>}

\* The fetch of the URL fetched at position i succeeded.
FetchOk(i) ==
    fetchImageBytes(image.fetched[i], image.outcomes[i], DEFAULT_MAX_BYTES).ok

ImageTargetInHand == image.pc \in {"fetching", "done"} /\ image.targets # << >>

\* C25: the URLs of a target are fetched in the order src, large, medium,
\* small, square of the variants they come from, none skipped and none twice;
\* every fetch before the last one failed; the target ends with the first
\* success, selected, or after every candidate failed, reported failed; the
\* attempts reported are the URLs fetched.
C25_VariantOrder ==
    ImageTargetInHand
    => LET fetched == image.fetched
           n == Len(fetched)
       IN /\ \A i \in 1 .. n : fetched[i] \in CandidateUrls
          /\ \A i \in 1 .. n, j \in 1 .. n :
                i < j => VariantOf(fetched[i]) < VariantOf(fetched[j])
          /\ \A url \in CandidateUrls :
                VariantOf(url) < VariantOf(fetched[n]) => InSeq(fetched, url)
          /\ Len(image.outcomes) = IF image.pc = "done" THEN n ELSE n - 1
          /\ \A i \in 1 .. (n - 1) : ~FetchOk(i)
          /\ image.pc = "done"
             => LET detail == image.details[1] IN
                /\ detail.attempts = n
                /\ detail.attempted_urls = fetched
                /\ detail.success = FetchOk(n)
                /\ detail.success
                   => /\ detail.selected_url = JsonString(fetched[n])
                      /\ image.result.payload # JsonNull
                /\ ~detail.success
                   => /\ \A url \in CandidateUrls : InSeq(fetched, url)
                      /\ \A i \in 1 .. n : ~FetchOk(i)
                      /\ image.result.payload = JsonNull

\* src and large failed, medium was selected, small and square were left alone.
C25_Witness ==
    /\ image.pc = "done"
    /\ image.targets # << >>
    /\ image.targets[1].urls
       = << << "u-src" >>, << "u-large" >>, << "u-medium" >>, << "u-small" >>,
            << "u-square" >> >>
    /\ image.fetched = << << "u-src" >>, << "u-large" >>, << "u-medium" >> >>
    /\ image.outcomes[1] = ImageRejection("AbortError")
    /\ image.outcomes[2] = ImageResponse(403, << "text", Slash, "html" >>, JsonNull, 7)
    /\ image.details[1].success
    /\ image.details[1].attempts = 3
    /\ image.details[1].selected_url = Text("u-medium")

\* ------------------------------------------------------------------ properties of the owner check

\* The direct lookup returned a channel and the handler takes its next step.
AfterDirectLookup ==
    /\ tool.pc = "lookup"
    /\ req[ToolCall].pc = "done"
    /\ req[ToolCall].outcome.kind = "return"
    /\ tool' # tool

\* C26: when the direct lookup returned a channel that fails the owner check,
\* the resolution ends in that step by throwing the owner error: no call of
\* the client is added, the answer is the message of that error, and nothing
\* follows the end of the tool call.
C26_OwnerFailureTerminal ==
    [][/\ (AfterDirectLookup /\ tool'.resolution.kind # "return")
          => /\ tool'.pc = "done"
             /\ tool'.resolution.kind = "throw"
             /\ tool'.resolution.error \in {OwnerMissingError, OwnerMismatchError}
             /\ tool'.result = ToolError(<< tool'.resolution.error.message >>)
             /\ tool'.calls = tool.calls
             /\ Len(tool.calls) = 1
             /\ req' = req
       /\ tool.pc = "done" => (tool' = tool /\ req' = req)]_vars

\* The channel of the direct lookup has another owner than the input names.
C26_Witness ==
    /\ tool.pc = "done"
    /\ Len(tool.calls) = 1
    /\ tool.calls[1].op = "getChannel"
    /\ req[ToolCall].outcome.kind = "return"
    /\ tool.norm.expectedOwnerSlug = << "alice" >>
    /\ tool.resolution = Throw(OwnerMismatchError)
    /\ tool.result = ToolError(<< "Channel owner mismatch" >>)

\* ------------------------------------------------------------------ properties of concurrent requests

\* The fetch of c was answered with a retryable status, rejected or aborted by
\* c's timeout in this step.
FailedStep(c) ==
    /\ req[c].pc = "fetching"
    /\ \/ req'[c].fetchFailures = req[c].fetchFailures + 1
       \/ req'[c].statusFailures = req[c].statusFailures + 1

\* What this step leaves of d as it was: its attempt, its calls of fetch, its
\* delays, what it got, and its position but for the slot handed to it.
Untouched(d) ==
    /\ req'[d].attempt = req[d].attempt
    /\ req'[d].fetches = req[d].fetches
    /\ req'[d].http = req[d].http
    /\ req'[d].sleeps = req[d].sleeps
    /\ req'[d].draws = req[d].draws
    /\ req'[d].statusFailures = req[d].statusFailures
    /\ req'[d].fetchFailures = req[d].fetchFailures
    /\ req'[d].last = req[d].last
    /\ req'[d].result = req[d].result
    /\ req'[d].outcome = req[d].outcome
    /\ \/ req'[d].pc = req[d].pc
       \/ req[d].pc = "queued" /\ req'[d].pc = "acquired"

\* C27: a failure or timeout of the fetch of one request takes one attempt of
\* that request's budget when it has one left (the delay computed from its own
\* attempt number) and ends that request otherwise; every other request keeps
\* its attempt, its fetch in flight, its delays and its result; and no request
\* has used more attempts than it had failures of its own.
C27_PerRequestRetry ==
    [][\A c \in Calls :
          /\ FailedStep(c)
             => /\ IF req[c].attempt < config.arenaMaxRetries
                   THEN /\ req'[c].pc = "sleeping"
                        /\ req'[c].attempt = req[c].attempt + 1
                        /\ \E rnd \in Randoms :
                              req'[c].sleeps
                              = Append(req[c].sleeps,
                                       computeRetryDelayMs(req[c].attempt,
                                                           config.arenaBackoffBaseMs,
                                                           NoHint, rnd))
                   ELSE /\ req'[c].pc = "settled"
                        /\ req'[c].attempt = req[c].attempt
                        /\ req'[c].result.kind = "throw"
                /\ \A d \in Calls \ {c} : Untouched(d)
          /\ req'[c].attempt <= req'[c].statusFailures + req'[c].fetchFailures
      ]_vars

\* Request 1 gave up after its timeouts while request 2, at its first attempt,
\* still has its fetch in flight.
C27_Witness ==
    /\ config.arenaMaxRetries = 1
    /\ req[1].pc = "done"
    /\ req[1].fetchFailures = 2
    /\ req[1].outcome = Throw([type |-> "AbortError",
                               message |-> "This operation was aborted"])
    /\ req[2].pc = "fetching"
    /\ req[2].attempt = 0
    /\ req[2].fetches = 1
    /\ active = 1

\* ------------------------------------------------------------------ properties of the identifiers

\* The stretches of s between its slashes that hold more than blanks, each as
\* the positions of its first and last token.
NonBlankPieces(s) ==
    {p \in (1 .. Len(s)) \X (1 .. Len(s)) :
        /\ p[1] <= p[2]
        /\ p[1] = 1 \/ s[p[1] - 1] = Slash
        /\ p[2] = Len(s) \/ s[p[2] + 1] = Slash
        /\ \A k \in p[1] .. p[2] : s[k] # Slash
        /\ \E k \in p[1] .. p[2] : s[k] # Space}

\* The n-th of them from the left, without the blanks around it.
PieceText(s, n) ==
    LET p == CHOOSE q \in NonBlankPieces(s) :
                 Cardinality({r \in NonBlankPieces(s) : r[1] < q[1]}) = n - 1
    IN trim(SubSeq(s, p[1], p[2]))

FirstSlash(s) == CHOOSE i \in 1 .. Len(s) : s[i] = Slash /\ \A j \in 1 .. i - 1 : s[j] # Slash

\* C28 as first stated: an identifier with text on both sides of its first "/"
\* has the text before it (lower-cased) as the owner expectation and all the
\* text after it as the slug.
C28_SplitOnFirstSlash ==
    Returned("normalizeChannelInput")
    => LET s == trim(pure.input) IN
       (/\ \E i \in 1 .. Len(s) : s[i] = Slash
        /\ trim(SubSeq(s, 1, FirstSlash(s) - 1)) # << >>
        /\ trim(SubSeq(s, FirstSlash(s) + 1, Len(s))) # << >>)
       => /\ pure.output.expectedOwnerSlug
             = toLowerCase(trim(SubSeq(s, 1, FirstSlash(s) - 1)))
          /\ pure.output.normalized = trim(SubSeq(s, FirstSlash(s) + 1, Len(s)))

\* C28: an identifier that is no URL is cut at every "/" and the parts that
\* hold only blanks are dropped; with two parts or more the first, lower-cased,
\* is the owner expectation and the second is the slug, whatever follows it
\* (a/b/c gives the slug b); with fewer the trimmed input is the identifier and
\* there is no owner expectation.
C28_OwnerAndSlug ==
    Returned("normalizeChannelInput")
    => LET s == pure.input IN
       /\ pure.output.usedUrlExtraction = FALSE
       /\ IF Cardinality(NonBlankPieces(s)) >= 2
          THEN /\ pure.output.expectedOwnerSlug = toLowerCase(PieceText(s, 1))
               /\ pure.output.normalized = PieceText(s, 2)
          ELSE /\ pure.output.expectedOwnerSlug = Null
               /\ pure.output.normalized = trim(s)

\* Alice/s1/c gave the slug s1 and the owner alice.
C28_Witness ==
    /\ Returned("normalizeChannelInput")
    /\ pure.input = << "Alice", Slash, "s1", Slash, "c" >>
    /\ pure.output = NormalizedInput(<< "s1" >>, FALSE, << "alice" >>)

\* ------------------------------------------------------------------ properties of the unexpected 204

\* The request of c was made without expectNoContent and ended on a 204.
UnexpectedNoContent(c) ==
    /\ Over(c)
    /\ ~ExpectNoContent(req[c].op)
    /\ req[c].last.kind = "response"
    /\ req[c].last.resp.status = 204

\* C29 as first stated: a 204 answering a request that expects a body ends the
\* request with the typed error, not with a result.
C29_NoContentIsFailure ==
    \A c \in Calls :
        UnexpectedNoContent(c)
        => /\ req[c].result.kind = "throw"
           /\ req[c].result.error.type = "ArenaApiError"

\* C29: a 204 answering a request that expects a body is a success whose body
\* is not read: the request returns null (not the undefined of an expected
\* 204), throws nothing, retries nothing, and the method returns to its caller.
C29_NoContentReturnsNull ==
    \A c \in Calls :
        UnexpectedNoContent(c)
        => /\ req[c].result = Return(JsonNull)
           /\ req[c].result # Return(Undefined)
           /\ req[c].fetches = Failures(c) + 1
           /\ Len(req[c].sleeps) = Failures(c)
           /\ req[c].pc = "done" => req[c].outcome.kind = "return"

\* getMe was answered 204 at its first fetch and returned.
C29_Witness ==
    \E c \in Calls :
        /\ req[c].pc = "done"
        /\ req[c].op = "getMe"
        /\ req[c].last = LastResponse(HttpResponse(204, RetryAfterHeader("absent", 0),
                                                   "json"))
        /\ req[c].fetches = 1
        /\ req[c].result = Return(JsonNull)
        /\ req[c].outcome.kind = "return"

\* ------------------------------------------------------------------ properties of the blocks

Payloads == {"content", "image", "attachment", "embed"}

\* The payloads of the block that are not null.
Populated(block) == {name \in Payloads : block[name] # JsonNull}

\* What the upstream value gives under the name, when it is an object.
Upstream(value, name) ==
    IF value.type = "object" /\ name \in DOMAIN value.fields
    THEN value.fields[name] ELSE Undefined

HasKeys(value) ==
    \/ value.type = "object" /\ DOMAIN value.fields # {}
    \/ value.type = "array" /\ value.items # << >>

\* The upstream record supplies the payload: content as a string or as an
\* object with a representation that has text, an image or an embed as an
\* object or array that is not empty, an attachment as an object whose url is
\* a string.
Supplies(value, name) ==
    LET given == Upstream(value, name) IN
    CASE name = "content" ->
            \/ given.type = "string"
            \/ \E r \in Representations :
                   /\ Upstream(given, r).type = "string"
                   /\ Upstream(given, r).text # << >>
      [] name = "attachment" -> Upstream(given, "url").type = "string"
      [] OTHER -> HasKeys(given)

\* C30 as first stated: every block has exactly one payload that is not null.
C30_ExactlyOnePayload ==
    Returned("normalizeBlockFromV3")
    => Cardinality(Populated(pure.output)) = 1

\* C30: each of content, image, attachment and embed of a block is populated
\* exactly when the upstream record supplies it, whatever the declared type
\* (which is kept when it is one of the six and PendingBlock otherwise): a block
\* has as many payloads as upstream gave it, from none to all four.
C30_PayloadsAsSupplied ==
    Returned("normalizeBlockFromV3")
    => /\ Populated(pure.output) = {name \in Payloads : Supplies(pure.input, name)}
       /\ pure.output.type
          = (IF Upstream(pure.input, "type") \in {Text(t) : t \in BlockTypes}
             THEN Upstream(pure.input, "type") ELSE Text("PendingBlock"))

\* A record declared an Image with a content and an image gave a block with
\* both.
C30_Witness ==
    /\ Returned("normalizeBlockFromV3")
    /\ pure.input = JsonObject("id" :> JsonNumber(7) @@ "type" :> Text("Image")
                               @@ "content" :> Text("hello")
                               @@ "image" :> JsonObject("src" :> Text("u-src")))
    /\ pure.output.type = Text("Image")
    /\ pure.output.content = NormalizedMarkdown(Text("hello"), Text("hello"), Text("hello"))
    /\ pure.output.image.src = Text("u-src")
    /\ pure.output.attachment = JsonNull
    /\ pure.output.embed = JsonNull

\* ------------------------------------------------------------------ properties of the slots

HoldingPcs == {"acquired", "fetching", "sleeping"}

\* No call holds a slot or waits for one.
AllFinished == \A c \in Calls : req[c].pc \in {"idle", "settled", "done"}

\* C31: a call that holds a slot gives it up only by ending its request, with
\* a result or an error, and the step that ends it releases once: the active
\* count goes down by one, or stays while the first queued call takes the slot;
\* the count goes down in no other step; and when no call holds a slot or
\* waits for one the active count is 0 and the queue is empty.
C31_SlotReleasedOnce ==
    [][/\ \A c \in Calls :
            (req[c].pc \in HoldingPcs /\ req'[c].pc \notin HoldingPcs)
            => /\ req'[c].pc = "settled"
               /\ req'[c].result.kind \in {"return", "throw"}
               /\ IF queue = << >>
                  THEN active' = active - 1 /\ queue' = queue
                  ELSE /\ active' = active
                       /\ queue' = Tail(queue)
                       /\ req[Head(queue)].pc = "queued"
                       /\ req'[Head(queue)].pc = "acquired"
       /\ active' < active
          => Cardinality({c \in Calls : req[c].pc \in HoldingPcs
                                         /\ req'[c].pc = "settled"}) = 1
       /\ AllFinished' => active' = 0 /\ queue' = << >>
      ]_vars

\* With one slot, three calls are over: one returned, one threw the typed
\* error, one threw the network error again; the limiter is at rest.
C31_Witness ==
    /\ config.arenaMaxConcurrentRequests = 1
    /\ active = 0
    /\ queue = << >>
    /\ \E c, d, e \in Calls :
           /\ req[c].pc = "done" /\ req[c].result.kind = "return"
           /\ req[d].pc = "done" /\ req[d].result.kind = "throw"
           /\ req[d].result.error.type = "ArenaApiError"
           /\ req[e].pc = "done" /\ req[e].result.kind = "throw"
           /\ req[e].result.error.type = "TypeError"

\* C32: a call that holds a slot keeps it until its request ends: from a
\* holding position it goes only to a holding position or to the end of the
\* request; going to sleep after a failure and waking up for the next attempt
\* change neither the active count nor the queue nor the number of calls of
\* acquire, and move no other call; and a queued call takes a slot only in a
\* step that ends the request of another call, so not while the holders sleep.
C32_SlotHeldAcrossRetries ==
    [][\A c \in Calls :
          /\ req[c].pc \in HoldingPcs => req'[c].pc \in HoldingPcs \cup {"settled"}
          /\ (\/ req[c].pc = "fetching" /\ req'[c].pc = "sleeping"
              \/ req[c].pc = "sleeping" /\ req'[c].pc = "fetching")
             => /\ active' = active
                /\ queue' = queue
                /\ arrivals' = arrivals
                /\ \A d \in Calls \ {c} : req'[d] = req[d]
          /\ (req[c].pc = "queued" /\ req'[c].pc # "queued")
             => \E d \in Calls \ {c} :
                    /\ req[d].pc \in HoldingPcs
                    /\ req'[d].pc = "settled"
      ]_vars

\* With one slot, a call is at its second attempt, after its sleep, and the
\* two calls that arrived meanwhile are still queued behind it.
C32_Witness ==
    /\ config.arenaMaxConcurrentRequests = 1
    /\ active = 1
    /\ \E c \in Calls :
           /\ req[c].pc = "fetching"
           /\ req[c].attempt = 1
           /\ req[c].fetches = 2
           /\ Len(req[c].sleeps) = 1
           /\ \A d \in Calls \ {c} : req[d].pc = "queued"
    /\ Len(queue) = 2

\* C33: with a limit of 1 or more, and every fetch and sleep coming to its
\* end, every call that was submitted ends with a result or an error, and
\* every queued call gets its slot.
C33_EveryCallEnds ==
    \A c \in Calls :
        /\ (req[c].pc # "idle") ~> (req[c].pc = "done")
        /\ (req[c].pc = "queued") ~> (req[c].pc = "acquired")

\* With one slot, a call that had to sleep is over, the call queued behind it
\* has the slot now, and the third still waits.
C33_Witness ==
    /\ config.arenaMaxConcurrentRequests = 1
    /\ \E c, d, e \in Calls :
           /\ req[c].pc = "done" /\ Len(req[c].sleeps) = 1
           /\ req[d].pc = "acquired" /\ req[d].waited
           /\ req[e].pc = "queued"

\* ------------------------------------------------------------------ properties of the retry budget

\* C34: the failures of both kinds draw on one counter: every sleep took one
\* attempt, whichever failure it followed; a request has made at most
\* maxRetries sleeps and maxRetries + 1 calls of fetch, one call more than
\* sleeps once it is past its first fetch, and never more sleeps than it had
\* failures of both kinds together; with maxRetries = 0 it never sleeps and a
\* finished request made exactly one call.
C34_SharedBudget ==
    \A c \in Calls :
        LET r == req[c]
            maxRetries == config.arenaMaxRetries
        IN /\ r.attempt = Len(r.sleeps)
           /\ Len(r.sleeps) <= maxRetries
           /\ r.fetches <= maxRetries + 1
           /\ Len(r.sleeps) <= r.statusFailures + r.fetchFailures
           /\ r.statusFailures + r.fetchFailures <= maxRetries + 1
           /\ r.pc \in {"fetching", "settled", "done"} => r.fetches = Len(r.sleeps) + 1
           /\ maxRetries = 0 =>
                 /\ r.sleeps = << >>
                 /\ Over(c) => r.fetches = 1

\* maxRetries 2: a rejected fetch, a 503 and a 429 used the budget up, and the
\* request threw the error of the 429.
C34_Witness ==
    \E c \in Calls :
        /\ config.arenaMaxRetries = 2
        /\ req[c].pc = "settled"
        /\ req[c].fetchFailures = 1 /\ req[c].statusFailures = 2
        /\ req[c].fetches = 3 /\ Len(req[c].sleeps) = 2
        /\ req[c].draws[1].hint = NoHint
        /\ req[c].result.kind = "throw"
        /\ req[c].result.error.type = "ArenaApiError"
        /\ req[c].result.error.status = 429

\* ------------------------------------------------------------------ properties of the resolver's calls

\* The methods the tool called, in order.
CalledOps == [i \in 1 .. Len(tool.calls) |-> tool.calls[i].op]

\* C35: a resolution calls getChannel, then at most search, then at most
\* getChannel once more, and nothing else before it ends: two lookups and one
\* search at most; when the search or the second lookup threw, the resolution
\* threw that very error (a 404 included) and the tool called nothing more.
C35_BoundedResolution ==
    /\ Cardinality(LookupCalls) <= 2
    /\ Cardinality(SearchCalls) <= 1
    /\ \E n \in 0 .. 3 :
          \/ CalledOps = SubSeq(<< "getChannel", "search", "getChannel" >>, 1, n)
          \/ /\ n >= 1
             /\ ResolvedOk
             /\ CalledOps = SubSeq(<< "getChannel", "search", "getChannel" >>, 1, n)
                             \o << "getChannelContents" >>
    /\ (/\ tool.pc = "done"
        /\ ResolveFailed
        /\ Len(tool.calls) \in {2, 3}
        /\ req[ToolCall].outcome.kind = "throw")
       => tool.resolution = Throw(req[ToolCall].outcome.error)

\* The lookup of the candidate the search gave was answered 404, and the
\* resolution threw that error after its three calls.
C35_Witness ==
    /\ tool.pc = "done"
    /\ CalledOps = << "getChannel", "search", "getChannel" >>
    /\ req[ToolCall].outcome.kind = "throw"
    /\ req[ToolCall].outcome.error.type = "ArenaApiError"
    /\ req[ToolCall].outcome.error.status = 404
    /\ tool.resolution = Throw(req[ToolCall].outcome.error)

\* ------------------------------------------------------------------ properties of the failed fallback

\* C36: a search that went to /v2/search called /v3/search before it (once,
\* or more after retries) and only /v2/search afterwards, each at most
\* maxRetries + 1 times; when the /v2/search request threw, the search throws
\* that error (of /v2/search when it is typed), which is not the 403 of
\* /v3/search.
C36_LegacyErrorThrown ==
    \A c \in Calls :
        LET r == req[c] IN
        (r.op = "search" /\ r.phase = "fallback") =>
           /\ PrimaryForbidden(c)
           /\ Len(r.http) > r.fetches
           /\ Len(r.http) - r.fetches <= config.arenaMaxRetries + 1
           /\ \A i \in 1 .. Len(r.http) :
                 r.http[i] = IF i <= Len(r.http) - r.fetches
                             THEN "/v3/search" ELSE "/v2/search"
           /\ r.fetches <= config.arenaMaxRetries + 1
           /\ (r.pc = "done" /\ r.result.kind = "throw") =>
                 /\ r.outcome = r.result
                 /\ r.outcome # r.primary
                 /\ r.outcome.error.type = "ArenaApiError"
                    => r.outcome.error.url = "/v2/search"

\* /v3/search answered 403 and /v2/search 503 twice: the search threw the 503
\* of /v2/search.
C36_Witness ==
    \E c \in Calls :
        /\ config.arenaMaxRetries = 1
        /\ req[c].pc = "done" /\ req[c].op = "search"
        /\ PrimaryForbidden(c)
        /\ req[c].http = << "/v3/search", "/v2/search", "/v2/search" >>
        /\ req[c].outcome = Throw(ArenaApiError(503, EmptyObject, NoHint, "/v2/search"))

\* ------------------------------------------------------------------ properties of the runtimes

\* The POST handler that created runtime k has finished: it returned, or its
\* catch answered 500.
HandlerFinished(k) == web.runtimes[k].pc \in {"finished", "failed"}

\* C37: in stateless mode the runtime of a POST whose handler has finished,
\* transport.handleRequest having resolved or thrown, has its transport closed
\* and its server closed.
C37_EphemeralRuntimeClosed ==
    ~web.stateful =>
        \A k \in 1 .. Len(web.runtimes) :
            HandlerFinished(k)
            => /\ web.runtimes[k].transport = "closed"
               /\ web.runtimes[k].closed
               /\ web.runtimes[k].closes = 1

\* C38: server.close() of a runtime is called at most once, and once when
\* closeServer was called at all, however often that was; and a session whose
\* transport has closed is not in the session map.
C38_ServerClosedOnce ==
    \A k \in 1 .. Len(web.runtimes) :
        LET rt == web.runtimes[k] IN
        /\ rt.closes <= 1
        /\ rt.calls >= 1 <=> rt.closes = 1
        /\ rt.closed <=> rt.closes = 1
        /\ (rt.session # 0 /\ rt.transport = "closed") => rt.session \notin web.sessions

\* A session was closed by shutdown after it was initialized: closeServer was
\* called three times (by onclose, by the onclose of server.close(), by
\* shutdown), server.close() once, and the session is gone from the map.
C38_Witness ==
    /\ web.stateful
    /\ web.shut.pc = "loop"
    /\ Len(web.runtimes) >= 1
    /\ web.runtimes[1].session = 1
    /\ web.runtimes[1].transport = "closed"
    /\ web.runtimes[1].calls = 3
    /\ web.runtimes[1].closes = 1
    /\ 1 \notin web.sessions

\* ------------------------------------------------------------------ properties of mapWithConcurrency

\* The indices the mapper is being awaited for.
MapInFlight == {w \in 1 .. Len(image.map.workers) : image.map.workers[w] >= 0}

\* Math.max(1, Math.min(limit, items.length)) for the call in hand.
MapBound ==
    LET n == Len(image.map.items)
        least == IF image.map.limit <= n THEN image.map.limit ELSE n
    IN IF least >= 1 THEN least ELSE 1

\* C39: the mapper is called with an item and its own index, never twice for
\* one index, and for every index by the time mapWithConcurrency returns;
\* results has at index i what the mapper resolved with for items[i], whatever
\* the order of the completions; and at most
\* max(1, min(limit, items.length)) mapper calls are in flight.
C39_MapWithConcurrency ==
    LET m == image.map
        n == Len(m.items)
    IN /\ \A c \in 1 .. Len(m.calls) :
              /\ m.calls[c][2] \in 0 .. (n - 1)
              /\ m.calls[c][1] = m.items[m.calls[c][2] + 1]
              /\ \A d \in 1 .. Len(m.calls) : m.calls[d][2] = m.calls[c][2] => d = c
       /\ Len(m.results) = n
       /\ \A i \in 1 .. n :
              m.results[i] \in {NoMapped, Mapped(m.items[i], i - 1)}
       /\ m.pc = "done" =>
              /\ Len(m.calls) = n
              /\ \A i \in 1 .. n : m.results[i] = Mapped(m.items[i], i - 1)
       /\ Cardinality(MapInFlight) <= MapBound

\* Three items mapped two at a time, the second call completing first: its
\* result is at index 1 while index 0 is still a hole, and its worker has
\* taken the third item, so that two calls are in flight again.
C39_Witness ==
    /\ image.map.pc = "running"
    /\ Len(image.map.items) = 3
    /\ image.map.limit = 2
    /\ image.map.workers = << 0, 2 >>
    /\ image.map.results[1] = NoMapped
    /\ image.map.results[2] = Mapped(image.map.items[2], 1)
    /\ image.map.calls[3] = << image.map.items[3], 2 >>

====
